---- MODULE Spec2Model ----
(***************************************************************************)
(* Model of the AWX deployer: the resource accessor (KubernetesClient),    *)
(* the operator installer, the manifest applier, the readiness waiter,     *)
(* the deployment verifier and main's four-stage pipeline.                 *)
(*                                                                         *)
(* File names, pod phases and other strings the code inspects are          *)
(* sequences of byte values, so that filepath.Glob's "*.yaml" match,       *)
(* sort.Strings' byte-wise order and strings.Contains are computed as Go   *)
(* computes them.  The common directory prefix "manifests/" is left out    *)
(* of every file name: it changes no match and no comparison.              *)
(*                                                                         *)
(* Time is counted in seconds and restarts at every context.WithTimeout,   *)
(* since only differences of times matter.  A store call is instantaneous, *)
(* and time advances only while the program is blocked in a select none    *)
(* of whose timers has fired.                                              *)
(*                                                                         *)
(* Another actor's change to a polled resource is taken at the latest      *)
(* moment it can matter: while the program is waiting to read it.          *)
(***************************************************************************)
EXTENDS Integers, Sequences, FiniteSets, TLC

\* ------------------------------------------------------------------ bounds
\* How many times another actor may write to or delete an applied object.
MaxOther == 1
\* The clock is not advanced past MaxTime.
MaxTime == 1500
\* The history counters stop counting at MaxCount.
MaxCount == 4

\* ------------------------------------------------------- the file system
\* "a.yaml"
FileA == <<97, 46, 121, 97, 109, 108>>
\* "a-b.yaml"
FileAB == <<97, 45, 98, 46, 121, 97, 109, 108>>
\* "b.yaml"
FileB == <<98, 46, 121, 97, 109, 108>>
\* "notes.txt"
FileNotes == <<110, 111, 116, 101, 115, 46, 116, 120, 116>>
\* "awx-operator.yaml", the installer's manifestPath
manifestPath == <<97, 119, 120, 45, 111, 112, 101, 114, 97, 116, 111, 114, 46, 121, 97, 109, 108>>
\* ".yaml", the extension of the glob pattern
YamlExt == <<46, 121, 97, 109, 108>>

\* The files a manifests directory may hold.
FilePool == {FileA, FileAB, FileB, FileNotes, manifestPath}

\* The identities of the objects the documents describe.
DocIds == 1..3

\* The identity (kind, name, namespace) of the object a file's document
\* describes.  "a.yaml" and "b.yaml" describe the same object.
DocOf(f) ==
    IF f = FileA \/ f = FileB THEN 1
    ELSE IF f = FileAB THEN 2
    ELSE 3

\* The content an actor other than the deployer writes.
OtherContent == <<111>>
\* The content of an object that was never written.
NoContent == <<>>

\* --------------------------------------------------- the polled store
\* The resources ResourceExists is asked about.
Resources == {"operator", "awx", "postgres", "web", "task",
              "service", "postgres-service", "ingress"}

\* The label selectors GetPodStatus is asked about.
Selectors == {"operator", "postgres", "web wait", "task wait",
              "web verify", "task verify"}

\* "Running"
PhaseRunning == <<82, 117, 110, 110, 105, 110, 103>>
\* "Pending"
PhasePending == <<80, 101, 110, 100, 105, 110, 103>>
\* "No pods found"
NoPodsFound == <<78, 111, 32, 112, 111, 100, 115, 32, 102, 111, 117, 110, 100>>

\* The pods a label selector may match, in the order List returns them.
PodLists == {<<>>, <<PhaseRunning>>, <<PhasePending>>,
             <<PhasePending, PhaseRunning>>}

\* ------------------------------------------------------------- the clock
\* time.NewTicker(30 * time.Second) of the four sub-waits
PollInterval == 30
\* time.NewTicker(10 * time.Second) of the installer's pod poll
OperatorPollInterval == 10
\* 15*time.Minute, the timeout main passes to WaitForReady
ReadyTimeout == 900
\* time.After(15 * time.Minute) in WaitForDeployment
WatchTimeout == 900
\* The timeouts WaitForReady is called with when it is analysed alone.
WaitTimeouts == {20, 30, 70, 130, 200}
\* The values of AWX_OPERATOR_TIMEOUT, in minutes.
OperatorTimeouts == {1, 15, 16}

VARIABLES
    run,        \* the entry point under analysis
    stage,      \* main's position
    ret,        \* the value each stage returned ("none" while it has not)
    retExpired, \* history: the deadline had fired when the last stage returned
    touched,    \* history: the stages that have made a call to the store
    dirExists,  \* the manifests directory exists
    dir,        \* the files in the manifests directory
    timeout,    \* WaitForReady's timeout argument
    operatorTimeout, \* config.OperatorTimeout
    objs,       \* the remote store: DocIds -> [present, content, rv]
    store0,     \* history: the remote store when the run began
    otherOps,   \* writes and deletes made by other actors so far
    exists,     \* the remote store: which of the polled resources exist
    pods,       \* the remote store: per label selector, the listed pods' phases
    pass,       \* which call of ManifestApplier.Apply is running (1 or 2)
    passRet,    \* what each call of ManifestApplier.Apply returned
    snap,       \* the store as the first call of ManifestApplier.Apply left it
    mpc,        \* ManifestApplier.Apply: the position inside the call
    files,      \* ManifestApplier.Apply: the sorted file list
    idx,        \* ManifestApplier.Apply: the loop position
    apc,        \* KubernetesClient.Apply: the position inside the call
    caller,     \* KubernetesClient.Apply: who called it
    curFile,    \* KubernetesClient.Apply: manifestPath
    readRV,     \* KubernetesClient.Apply: existingObj.GetResourceVersion()
    applyRet,   \* KubernetesClient.Apply: the value returned
    ops,        \* history: the store calls of the current KubernetesClient.Apply
    calls,      \* history: the files ManifestApplier.Apply handed to Apply, per pass
    submitted,  \* history: every call of KubernetesClient.Apply, with its caller
    lookups,    \* history: every discovery lookup of gvrForGVK, and whether
                \* it found the kind
    callRets,   \* history: whether each of those calls returned nil, per pass
    creates,    \* history: successful creates, per pass and identity
    faults,     \* history: per pass, a store call failed for a reason of the
                \* store's own
    now,        \* seconds since the current deadline clock was started
    deadline,   \* when the current context.WithTimeout expires
    watchAt,    \* when WaitForDeployment's time.After fires
    tickAt,     \* when the current ticker fires next
    tickEvery,  \* the current ticker's period
    tickBuf,    \* a tick is waiting in the ticker's channel
    wpc,        \* WaitForReady: the position inside the call
    wTier,      \* WaitForReady: the sub-wait that is running (1..4)
    ticks,      \* history: ticks each sub-wait received
    existChecks, \* history: ResourceExists calls of each sub-wait
    lastTick,   \* history: the answers and the outcome of the last tick
    readySeen,  \* history: the tiers a tick's checks have reported ready
    ipc,        \* Install: the position inside the call
    iApplies,   \* history: Apply calls made by Install
    iWatches,   \* history: watches opened by Install
    iPodChecks, \* history: GetPodStatus calls made by Install
    lastEvent,  \* history: the last event WaitForDeployment received
    lastPhase,  \* history: the answer to the installer's last GetPodStatus
    vpc,        \* Verify: the check that comes next (1..6)
    ingressLog, \* history: the line on the ingress written to the log
    ingressSeen, \* history: what verifyIngress learnt about the ingress
    vCalls,     \* history: the checks Verify made, with their outcome and
                \* the number of their store calls
    cancelled,  \* whether the caller has cancelled the context it passed,
                \* with history: the time, the sub-wait and the checks made
                \* when it did
    acc,        \* the accessor call under analysis: its input and its result
    lastCall    \* history: the last check of the running pipeline whose error
                \* the caller inspects, and whether it returned one

mainVars == <<run, stage, ret, retExpired>>
cfgVars == <<dirExists, dir, timeout, operatorTimeout, store0>>
storeVars == <<objs, otherOps>>
pollVars == <<exists, pods>>
applierVars == <<pass, passRet, snap, mpc, files, idx>>
applyVars == <<apc, caller, curFile, readRV, applyRet, ops>>
applyHist == <<calls, submitted, lookups, callRets, creates, faults>>
clockVars == <<now, deadline, watchAt, tickAt, tickEvery, tickBuf>>
waitVars == <<wpc, wTier>>
waitHist == <<ticks, existChecks, lastTick, readySeen>>
instVars == <<ipc, iApplies, iWatches, iPodChecks, lastEvent, lastPhase>>
verVars == <<vpc, ingressLog, ingressSeen, vCalls>>
callerVars == <<cancelled, acc>>
vars == <<mainVars, touched, cfgVars, storeVars, pollVars, applierVars,
          applyVars, applyHist, clockVars, waitVars, waitHist, instVars, verVars,
          callerVars, lastCall>>

\* What the applier and Apply leave alone.
applyFrame == <<cfgVars, pollVars, clockVars, waitVars, waitHist, verVars,
                callerVars, lastCall>>
\* What the waiter leaves alone: in a tick, and in its other steps.
waitKeeps == <<cfgVars, storeVars, applierVars, applyVars, applyHist, instVars,
               verVars, callerVars>>
waitFrame == <<waitKeeps, lastCall>>
\* What the installer's own steps leave alone: in a check, and in the
\* other steps.
instKeeps == <<cfgVars, storeVars, applierVars, waitVars, waitHist, verVars,
               callerVars>>
instFrame == <<instKeeps, lastCall>>
\* What the verifier leaves alone.
verFrame == <<cfgVars, storeVars, applierVars, applyVars, applyHist, clockVars,
              waitVars, waitHist, instVars, callerVars, lastCall>>

\* ---------------------------------------------------------- Go's strings
Min(a, b) == IF a < b THEN a ELSE b

\* strings.HasSuffix
HasSuffix(s, suffix) ==
    /\ Len(s) >= Len(suffix)
    /\ SubSeq(s, Len(s) - Len(suffix) + 1, Len(s)) = suffix

\* strings.Contains
Contains(s, sub) ==
    \E i \in 1..(Len(s) - Len(sub) + 1) : SubSeq(s, i, i + Len(sub) - 1) = sub

\* Go's s < t on strings: byte-wise lexicographic order.
StringLess(s, t) ==
    \E i \in 1..(Min(Len(s), Len(t)) + 1) :
        /\ \A j \in 1..(i - 1) : s[j] = t[j]
        /\ \/ i = Len(s) + 1 /\ i <= Len(t)
           \/ i <= Len(s) /\ i <= Len(t) /\ s[i] < t[i]

\* One step of an insertion sort: x put into the sorted sequence s.
RECURSIVE Insert(_, _)
Insert(x, s) ==
    IF s = <<>> THEN <<x>>
    ELSE IF StringLess(s[1], x) THEN <<s[1]>> \o Insert(x, Tail(s))
    ELSE <<x>> \o s

RECURSIVE SortLoop(_)
SortLoop(s) == IF s = <<>> THEN <<>> ELSE Insert(s[1], SortLoop(Tail(s)))

SortStringsUnsorted(s) == s
\* sort.Strings(files)
SortStrings(s) == SortLoop(s)

\* The files of the directory that match "*.yaml".
GlobMatches(d) == {f \in d : HasSuffix(f, YamlExt)}

\* filepath.Glob returns the matches in an order the caller does not control.
Glob(d) ==
    LET m == GlobMatches(d)
        n == Cardinality(m)
    IN {s \in [1..n -> m] : \A i, j \in 1..n : i # j => s[i] # s[j]}

IsPrefix(s, t) == Len(s) <= Len(t) /\ SubSeq(t, 1, Len(s)) = s

\* The history counters and the record of the last tick are kept in the
\* runs that analyse one component alone; main's run keeps the history of
\* the pipeline (ret, touched, calls, lookups).
Recording == run # "main"

Count(c) == IF Recording /\ c < MaxCount THEN c + 1 ELSE c

\* ------------------------------------------------------------------ main
Stages == {"install", "apply", "wait", "verify"}

\* The statement of main that follows stage s when it returned nil; after
\* Verify come the final log lines and the return from main.
NextStageUnverified(s) ==
    IF s = "install" THEN "apply"
    ELSE IF s = "apply" THEN "wait"
    ELSE "exit0"
NextStage(s) ==
    IF s = "install" THEN "apply"
    ELSE IF s = "apply" THEN "wait"
    ELSE IF s = "wait" THEN "verify"
    ELSE "exit0"

NilErr == [kind |-> "nil"]
\* No accessor call is under analysis.
NoCall == [fn |-> "none"]
\* The caller has not cancelled the context it passed.
NotCancelled == [is |-> FALSE, at |-> 0, tier |-> 0, checks |-> 0]
NoRet == [kind |-> "none"]

\* No check was made yet.
NoCheck == [site |-> "none", err |-> FALSE]

\* A check at site returned to its caller, with an error or without.
Checked(site, err) ==
    lastCall' = IF Recording THEN lastCall ELSE [site |-> site, err |-> err]

\* Where main goes when stage s returns r: log.Fatalf on an error, the
\* next stage otherwise.
AfterStageIgnoringErr(s, r) == NextStage(s)
AfterStage(s, r) == IF r = NilErr THEN NextStage(s) ELSE "exit1"

\* A stage returns r.  Called alone, the stage just returns; in the run
\* that hands over from WaitForReady to Verify, Verify follows a wait that
\* returned nil, as in main.
Return(s, r) ==
    /\ ret' = [ret EXCEPT ![s] = r]
    /\ stage' = IF run = "main" THEN AfterStage(s, r)
                ELSE IF run = "handover" /\ s = "wait"
                        /\ AfterStage(s, r) = "verify" THEN "verify"
                ELSE "returned"
    /\ run' = run
    /\ retExpired' = (deadline > 0 /\ now >= deadline)

\* The running stage makes a call to the store.
TouchIf(b) == touched' = [touched EXCEPT ![stage] = @ \/ b]
Touch == TouchIf(TRUE)

\* ------------------------------------------------------------ the store
Absent == [present |-> FALSE, content |-> NoContent, rv |-> 0]
Old == [present |-> TRUE, content |-> OtherContent, rv |-> 1]

\* What the store keeps of an object besides its version token.
Visible(o) == [present |-> o.present, content |-> o.content]
VisibleStore(s) == [i \in DocIds |-> Visible(s[i])]

\* A call of KubernetesClient.Apply is between its entry and its return.
\* Another actor's write is taken while one is, and to the object of that
\* call: the deployer reads no other object, and at no other time.
ApplyInProgress == apc \in {"create", "get", "update"}

\* Another actor writes an applied object.
OtherWrite(i) ==
    /\ otherOps < MaxOther
    /\ ApplyInProgress
    /\ i = DocOf(curFile)
    /\ objs' = [objs EXCEPT ![i] =
                   [present |-> TRUE, content |-> OtherContent, rv |-> @.rv + 1]]
    /\ otherOps' = otherOps + 1
    /\ UNCHANGED <<mainVars, touched, applierVars, applyVars, applyHist,
                   instVars, applyFrame>>

\* Another actor deletes an applied object.
OtherDelete(i) ==
    /\ otherOps < MaxOther
    /\ ApplyInProgress
    /\ i = DocOf(curFile)
    /\ objs[i].present
    /\ objs' = [objs EXCEPT ![i] = [@ EXCEPT !.present = FALSE]]
    /\ otherOps' = otherOps + 1
    /\ UNCHANGED <<mainVars, touched, applierVars, applyVars, applyHist,
                   instVars, applyFrame>>

\* The context a call is made with is done: its caller has cancelled it,
\* or the deadline it carries has fired.
CallCtxDoneByCancel == cancelled.is
CallCtxDone == cancelled.is \/ (deadline > 0 /\ now >= deadline)

\* What the store answers to the Get of ResourceExists: the object, a
\* not-found error, or another error.  A call made with a context that is
\* done fails.
GetAnswers(r) ==
    IF CallCtxDone THEN {"fault"}
    ELSE {IF exists[r] THEN "ok" ELSE "NotFound", "fault"}

\* What ResourceExists makes of the answer: (true, nil), (false, nil) or
\* (false, err).
ResourceExistsResultStrict(answer) ==
    IF answer = "ok" THEN [err |-> FALSE, val |-> TRUE]
    ELSE [err |-> TRUE, val |-> FALSE]
ResourceExistsResult(answer) ==
    IF answer = "ok" THEN [err |-> FALSE, val |-> TRUE]
    ELSE IF answer = "NotFound" THEN [err |-> FALSE, val |-> FALSE]
    ELSE [err |-> TRUE, val |-> FALSE]

ResourceExists(r) == {ResourceExistsResult(a) : a \in GetAnswers(r)}

\* What the store answers to the List of GetPodStatus: the pods the
\* selector matches, or an error.
ListAnswers(sel) ==
    IF CallCtxDone THEN {[ok |-> FALSE, items |-> <<>>]}
    ELSE {[ok |-> TRUE, items |-> pods[sel]], [ok |-> FALSE, items |-> <<>>]}

\* The status of a list of pods: the first listed pod's phase, or the
\* sentinel for an empty list.
PodStatusLast(list) == IF Len(list) = 0 THEN NoPodsFound ELSE list[Len(list)]
PodStatus(list) == IF Len(list) = 0 THEN NoPodsFound ELSE list[1]

\* What GetPodStatus makes of the answer: (status, nil) or ("", err).
GetPodStatusResult(a) ==
    IF a.ok THEN [made |-> TRUE, err |-> FALSE, val |-> PodStatus(a.items)]
    ELSE [made |-> TRUE, err |-> TRUE, val |-> <<>>]

GetPodStatus(sel) == {GetPodStatusResult(a) : a \in ListAnswers(sel)}
\* The call is not made.
NoPodStatus == [made |-> FALSE, err |-> FALSE, val |-> <<>>]

\* --------------------------------------------- KubernetesClient.Apply
\* The plural resource names of the kinds of the documents in manifests:
\* Namespace, StorageClass, PersistentVolume, Secret and AWX.
ApplyResources ==
    {"namespaces", "storageclasses", "persistentvolumes", "secrets", "awxs"}
\* obj.GetNamespace(): empty, or the namespace the document names.
DocNamespaces == {"", "awx"}

\* The namespace Apply addresses the object in; "" is the cluster scope.
ApplyNamespace(resource, namespace) ==
    IF namespace = ""
    THEN IF resource # "namespaces" /\ resource # "persistentvolumes"
         THEN "default"
         ELSE ""
    ELSE namespace

ApplyErr(cause, f) == [kind |-> "apply", cause |-> cause, file |-> f]

\* The group, version and kind of a file's document: the operator's
\* document is of one kind, the other documents are of another.
GVKOf(f) == IF f = manifestPath THEN "operator" ELSE "workload"

\* What gvrForGVK learns from ServerResourcesForGroupVersion: the kind's
\* resource, a list without the kind, or an error.
DiscoveryAnswers == {"found", "not exposed", "fault"}

\* What Apply does when gvrForGVK has returned.
AfterDiscoveryGuess(answer) == "create"
AfterDiscovery(answer) ==
    IF answer = "found" THEN "create" ELSE "return err"

\* The caller enters Apply(ctx, f): ReadFile, Decode and gvrForGVK.
\* They end in an error or leave the call about to create.
ApplyEnter(who, f) ==
    /\ caller' = who
    /\ submitted' = Append(submitted, [by |-> who, file |-> f])
    /\ curFile' = f
    /\ readRV' = 0
    /\ ops' = <<>>
    /\ \/ /\ f \notin dir
          /\ apc' = "done"
          /\ applyRet' = ApplyErr("read", f)
          /\ UNCHANGED <<faults, lookups>>
       \/ /\ f \in dir
          /\ \E answer \in DiscoveryAnswers :
                /\ lookups' = IF Recording THEN lookups
                               ELSE Append(lookups,
                                           [gvk |-> GVKOf(f), file |-> f,
                                            ok |-> answer = "found"])
                /\ faults' = [faults EXCEPT ![pass] = @ \/ answer # "found"]
                /\ IF AfterDiscovery(answer) = "create"
                   THEN /\ apc' = "create"
                        /\ applyRet' = NilErr
                   ELSE /\ apc' = "done"
                        /\ applyRet' = ApplyErr("discovery", f)

\* Apply(ctx, f) reaches the discovery call only when f can be read.
ApplyEnterTouches(f) == f \in dir

\* What the server answers to a create that reaches it.
CreateAnswer(o) == IF o.present THEN "AlreadyExists" ELSE "ok"

\* What Apply does with the answer to its create: "get" is the re-read
\* that precedes the update.
AfterCreateBlind(answer) ==
    IF answer = "ok" THEN "return nil" ELSE "return err"
AfterCreate(answer) ==
    IF answer = "ok" THEN "return nil"
    ELSE IF answer = "AlreadyExists" THEN "get"
    ELSE "return err"

\* resource.Create(ctx, obj)
ApplyCreate ==
    /\ apc = "create"
    /\ LET i == DocOf(curFile) IN
       \E answer \in {CreateAnswer(objs[i]), "fault"} :
          /\ ops' = Append(ops, [op |-> "create", answer |-> answer, rv |-> 0])
          /\ faults' = [faults EXCEPT ![pass] = @ \/ answer = "fault"]
          /\ IF answer = "ok"
             THEN /\ objs' = [objs EXCEPT ![i] =
                        [present |-> TRUE, content |-> curFile, rv |-> @.rv + 1]]
                  /\ creates' = [creates EXCEPT ![pass][i] = Count(@)]
             ELSE UNCHANGED <<objs, creates>>
          /\ LET next == AfterCreate(answer) IN
             /\ apc' = IF next = "get" THEN "get" ELSE "done"
             /\ applyRet' = IF next = "return err"
                            THEN ApplyErr("create", curFile) ELSE NilErr
    /\ Touch
    /\ UNCHANGED <<mainVars, otherOps, applierVars, caller, curFile, readRV,
                   calls, submitted, lookups, callRets, instVars, applyFrame>>

\* What Apply does with the answer to its re-read: it goes on to the
\* update, or returns the error.
AfterGetRecreate(answer) ==
    IF answer = "ok" THEN "update"
    ELSE IF answer = "NotFound" THEN "create"
    ELSE "return err"
AfterGet(answer) ==
    IF answer = "ok" THEN "update" ELSE "return err"

\* resource.Get(ctx, obj.GetName())
ApplyGet ==
    /\ apc = "get"
    /\ LET i == DocOf(curFile) IN
       \E answer \in {IF objs[i].present THEN "ok" ELSE "NotFound", "fault"} :
          /\ ops' = Append(ops, [op |-> "get", answer |-> answer,
                                 rv |-> IF answer = "ok" THEN objs[i].rv ELSE 0])
          /\ faults' = [faults EXCEPT ![pass] = @ \/ answer = "fault"]
          /\ readRV' = IF answer = "ok" THEN objs[i].rv ELSE readRV
          /\ IF AfterGet(answer) = "return err"
             THEN /\ apc' = "done"
                  /\ applyRet' = ApplyErr("get", curFile)
             ELSE /\ apc' = AfterGet(answer)
                  /\ applyRet' = NilErr
    /\ Touch
    /\ UNCHANGED <<mainVars, storeVars, applierVars, caller, curFile, calls,
                   submitted, lookups, callRets, creates, instVars, applyFrame>>

\* The version token the update carries: obj.SetResourceVersion(...).
UpdateTokenNone(read) == 0
UpdateToken(read) == read

\* What the server answers to an update carrying the token rv.
UpdateAnswer(o, rv) ==
    IF ~o.present THEN "NotFound"
    ELSE IF o.rv # rv THEN "Conflict"
    ELSE "ok"

\* What Apply does with the answer to its update: it returns, with an
\* error unless the update succeeded.
AfterUpdateRetry(answer) ==
    IF answer = "ok" THEN "return nil"
    ELSE IF answer = "Conflict" THEN "get"
    ELSE "return err"
AfterUpdate(answer) ==
    IF answer = "ok" THEN "return nil" ELSE "return err"

\* resource.Update(ctx, obj)
ApplyUpdate ==
    /\ apc = "update"
    /\ LET i == DocOf(curFile)
           token == UpdateToken(readRV)
       IN
       \E answer \in {UpdateAnswer(objs[i], token), "fault"} :
          /\ ops' = Append(ops, [op |-> "update", answer |-> answer, rv |-> token])
          /\ faults' = [faults EXCEPT ![pass] = @ \/ answer = "fault"]
          /\ IF answer = "ok"
             THEN objs' = [objs EXCEPT ![i] =
                        [present |-> TRUE, content |-> curFile, rv |-> @.rv + 1]]
             ELSE UNCHANGED objs
          /\ apc' = IF AfterUpdate(answer) = "get" THEN "get" ELSE "done"
          /\ applyRet' = IF AfterUpdate(answer) = "return err"
                         THEN ApplyErr("update", curFile)
                         ELSE NilErr
    /\ Touch
    /\ UNCHANGED <<mainVars, otherOps, applierVars, caller, curFile, readRV,
                   calls, submitted, lookups, callRets, creates, instVars, applyFrame>>

\* ------------------------------------------------ ManifestApplier.Apply
StageErr(cause, f) == [kind |-> "stage", cause |-> cause, file |-> f]

\* ManifestApplier.Apply returns r.  The applier run calls it a second
\* time over the same directory.
ApplierReturn(r) ==
    /\ passRet' = [passRet EXCEPT ![pass] = r]
    /\ IF run = "applier" /\ pass = 1
       THEN /\ pass' = 2
            /\ snap' = objs
            /\ mpc' = "enter"
            /\ UNCHANGED mainVars
       ELSE /\ mpc' = "returned"
            /\ UNCHANGED <<pass, snap>>
            /\ Return("apply", r)

\* Where "for _, file := range files" starts in a list of n files.
LoopStartSecond(n) == IF n > 1 THEN 2 ELSE 1
LoopStart(n) == 1

\* What ManifestApplier.Apply does with the n files the glob matched.
AfterGlobAllowEmpty(n) == IF n = 0 THEN "return nil" ELSE "loop"
AfterGlob(n) == IF n = 0 THEN "return err" ELSE "loop"

\* os.Stat, filepath.Glob, the empty check and sort.Strings.
ApplierStart ==
    /\ stage = "apply"
    /\ mpc = "enter"
    /\ IF ~dirExists
       THEN /\ ApplierReturn(StageErr("no directory", <<>>))
            /\ UNCHANGED <<files, idx>>
       ELSE \E matches \in Glob(dir) :
               IF AfterGlob(Len(matches)) # "loop"
               THEN /\ ApplierReturn(IF AfterGlob(Len(matches)) = "return nil"
                                     THEN NilErr
                                     ELSE StageErr("no files", <<>>))
                    /\ UNCHANGED <<files, idx>>
               ELSE /\ files' = SortStrings(matches)
                    /\ idx' = LoopStart(Len(matches))
                    /\ mpc' = "loop"
                    /\ UNCHANGED <<mainVars, pass, passRet, snap>>
    /\ UNCHANGED <<touched, storeVars, applyVars, applyHist, instVars, applyFrame>>

\* The loop body up to the first store call of k8sClient.Apply(ctx, file).
ApplierCall ==
    /\ stage = "apply"
    /\ mpc = "loop"
    /\ ApplyEnter("applier", files[idx])
    /\ calls' = [calls EXCEPT ![pass] = Append(@, files[idx])]
    /\ mpc' = "call"
    /\ TouchIf(ApplyEnterTouches(files[idx]))
    /\ UNCHANGED <<mainVars, storeVars, pass, passRet, snap, files, idx,
                   callRets, creates, instVars, applyFrame>>

\* What the loop does with the value k8sClient.Apply returned for the
\* i-th of n files.
AfterApplyContinue(r, i, n) ==
    IF i < n THEN "next" ELSE "return nil"
AfterApply(r, i, n) ==
    IF r # NilErr THEN "return err"
    ELSE IF i < n THEN "next"
    ELSE "return nil"

\* k8sClient.Apply has returned to the loop.
ApplierAfterApply ==
    /\ stage = "apply"
    /\ mpc = "call"
    /\ apc = "done"
    /\ caller = "applier"
    /\ apc' = "idle"
    /\ LET next == AfterApply(applyRet, idx, Len(files)) IN
       IF next = "next"
       THEN /\ idx' = idx + 1
            /\ mpc' = "loop"
            /\ UNCHANGED <<mainVars, pass, passRet, snap>>
       ELSE /\ ApplierReturn(IF next = "return nil" THEN NilErr
                             ELSE StageErr("apply", files[idx]))
            /\ idx' = idx
    /\ callRets' = [callRets EXCEPT ![pass] = Append(@, applyRet = NilErr)]
    /\ UNCHANGED <<touched, storeVars, files, caller, curFile, readRV, applyRet,
                   ops, calls, submitted, lookups, creates, faults, instVars,
                   applyFrame>>

\* ---------------------------------------------------------- the clock
\* The context context.WithTimeout derives is done with its parent: the
\* caller's cancellation reaches it.
ParentDoneUnseen == FALSE
ParentDone == cancelled.is

\* <-ctx.Done() of the context that carries the deadline is ready.
CtxDoneNever == FALSE
CtxDone == now >= deadline \/ ParentDone

\* The time of the first tick of a ticker of period d made at time at.
FirstTickAtOnce(at, d) == at
FirstTick(at, d) == at + d

\* time.NewTicker(d) called at time at: the first tick comes d later.
NewTicker(at, d) ==
    /\ tickAt' = FirstTick(at, d)
    /\ tickEvery' = d
    /\ tickBuf' = (FirstTick(at, d) <= at)

\* defer cancel() and defer ticker.Stop(): the deadline and the ticker are
\* given up, and the clock is free to restart.
StopClock ==
    /\ now' = 0
    /\ deadline' = 0
    /\ watchAt' = 0
    /\ tickAt' = 0
    /\ tickEvery' = 0
    /\ tickBuf' = FALSE

\* ---------------------------------------------------------- WaitForReady
Tiers == 1..4

\* The resource each sub-wait asks ResourceExists about.
WaitResource(t) ==
    IF t = 1 THEN "awx"
    ELSE IF t = 2 THEN "postgres"
    ELSE IF t = 3 THEN "web"
    ELSE "task"

\* The label selector each sub-wait asks GetPodStatus about.
WaitSelector(t) ==
    IF t = 2 THEN "postgres"
    ELSE IF t = 3 THEN "web wait"
    ELSE "task wait"

WaitErr(t) == [kind |-> "wait", cause |-> "timeout", tier |-> t]
CheckErr(t) == [kind |-> "wait", cause |-> "check", tier |-> t]

\* context.WithTimeout(ctx, timeout) and the entry to waitForAWXInstance.
WaitForReady ==
    /\ stage = "wait"
    /\ wpc = "enter"
    /\ now' = 0
    /\ deadline' = timeout
    /\ NewTicker(0, PollInterval)
    /\ wTier' = 1
    /\ wpc' = "select"
    /\ UNCHANGED <<mainVars, touched, watchAt, pollVars, waitHist, waitFrame>>

\* The deadline of the context the next sub-wait is given: ctxWithTimeout,
\* the one made at entry.
SubWaitDeadlineFresh(d, at) == at + timeout
SubWaitDeadline(d, at) == d

\* A sub-wait returns nil: the next one is entered, and after the last
\* one WaitForReady returns nil.
SubWaitReturnsNil(t) ==
    IF t < 4
    THEN /\ wTier' = t + 1
         /\ wpc' = "select"
         /\ NewTicker(now, PollInterval)
         /\ deadline' = SubWaitDeadline(deadline, now)
         /\ UNCHANGED <<mainVars, now, watchAt>>
    ELSE /\ wpc' = "returned"
         /\ wTier' = wTier
         /\ Return("wait", NilErr)
         /\ StopClock

\* A sub-wait returns an error, and so does WaitForReady.
SubWaitReturnsErr(r) ==
    /\ wpc' = "returned"
    /\ wTier' = wTier
    /\ Return("wait", r)
    /\ StopClock

\* The tick is taken and the loop goes round.
SubWaitContinues ==
    /\ tickBuf' = FALSE
    /\ UNCHANGED <<mainVars, wTier, wpc, tickAt, tickEvery, now, deadline, watchAt>>

\* What a tick of waitForAWXInstance does with the answer to its check.
InstanceOutcomeHard(e) ==
    IF e.err THEN "return err"
    ELSE IF e.val THEN "return nil"
    ELSE "continue"
InstanceOutcomeAnyAnswer(e) ==
    IF e.err THEN "continue" ELSE "return nil"
InstanceOutcome(e) ==
    IF e.err THEN "continue"
    ELSE IF e.val THEN "return nil"
    ELSE "continue"

\* What a tick of the three tier sub-waits does with the answers to its
\* checks; the pod status is asked for only when the deployment exists.
TickOutcomeExistsOnly(e, p) ==
    IF e.err THEN "continue"
    ELSE IF ~e.val THEN "continue"
    ELSE "return nil"
TickOutcomeHard(e, p) ==
    IF e.err THEN "return err"
    ELSE IF ~e.val THEN "continue"
    ELSE IF p.err THEN "return err"
    ELSE IF Contains(p.val, PhaseRunning) THEN "return nil"
    ELSE "continue"
TickOutcome(e, p) ==
    IF e.err THEN "continue"
    ELSE IF ~e.val THEN "continue"
    ELSE IF p.err THEN "continue"
    ELSE IF Contains(p.val, PhaseRunning) THEN "return nil"
    ELSE "continue"

\* The checks of a tick reported the tier ready: for the custom resource
\* that it exists, for a tier that its deployment exists and its first pod
\* is in a phase that contains "Running".
ReportsReady(t, e, p) ==
    /\ ~e.err
    /\ e.val
    /\ t > 1 => (p.made /\ ~p.err /\ Contains(p.val, PhaseRunning))

\* No tick was taken yet.
NoTick == [tier |-> 0, e |-> [err |-> FALSE, val |-> FALSE], p |-> NoPodStatus,
           outcome |-> "none"]

\* case <-ticker.C of waitForAWXInstance
waitForAWXInstanceTick ==
    /\ stage = "wait"
    /\ wpc = "select"
    /\ wTier = 1
    /\ tickBuf
    /\ \E e \in ResourceExists(WaitResource(1)) :
          LET outcome == InstanceOutcome(e) IN
          /\ ticks' = [ticks EXCEPT ![1] = Count(@)]
          /\ existChecks' = [existChecks EXCEPT ![1] = Count(@)]
          /\ lastTick' = IF Recording
                         THEN [tier |-> 1, e |-> e, p |-> NoPodStatus,
                               outcome |-> outcome]
                         ELSE lastTick
          /\ readySeen' = IF Recording /\ ReportsReady(1, e, NoPodStatus)
                          THEN readySeen \cup {1} ELSE readySeen
          /\ Checked("tick", e.err)
          /\ IF outcome = "return nil" THEN SubWaitReturnsNil(1)
             ELSE IF outcome = "continue" THEN SubWaitContinues
             ELSE SubWaitReturnsErr(CheckErr(1))
    /\ Touch
    /\ UNCHANGED <<pollVars, waitKeeps>>

\* case <-ticker.C of waitForPostgreSQL, waitForAWXWeb and waitForAWXTask
waitForTierTick(t) ==
    /\ stage = "wait"
    /\ wpc = "select"
    /\ wTier = t
    /\ tickBuf
    /\ \E e \in ResourceExists(WaitResource(t)) :
       \E p \in IF ~e.err /\ e.val THEN GetPodStatus(WaitSelector(t))
                 ELSE {NoPodStatus} :
          LET outcome == TickOutcome(e, p) IN
          /\ ticks' = [ticks EXCEPT ![t] = Count(@)]
          /\ existChecks' = [existChecks EXCEPT ![t] = Count(@)]
          /\ lastTick' = IF Recording
                         THEN [tier |-> t, e |-> e, p |-> p, outcome |-> outcome]
                         ELSE lastTick
          /\ readySeen' = IF Recording /\ ReportsReady(t, e, p)
                          THEN readySeen \cup {t} ELSE readySeen
          /\ Checked("tick", e.err \/ p.err)
          /\ IF outcome = "return nil" THEN SubWaitReturnsNil(t)
             ELSE IF outcome = "continue" THEN SubWaitContinues
             ELSE SubWaitReturnsErr(CheckErr(t))
    /\ Touch
    /\ UNCHANGED <<pollVars, waitKeeps>>

\* case <-ctx.Done() of the four sub-waits
SubWaitDone ==
    /\ stage = "wait"
    /\ wpc = "select"
    /\ CtxDone
    /\ wpc' = "returned"
    /\ Return("wait", WaitErr(wTier))
    /\ StopClock
    /\ UNCHANGED <<touched, wTier, pollVars, waitHist, waitFrame>>

\* --------------------------------------------------- OperatorInstaller
InstallErr(cause) == [kind |-> "install", cause |-> cause]

\* The events a watch on the operator deployment delivers: the deployment
\* with the Available condition true, the deployment without it, and an
\* object that is not a deployment.
WatchEvents == {"available", "unavailable", "not a deployment"}

\* WaitForDeployment returns nil on this event.
WatchMatchesAnyDeployment(ev) == ev # "not a deployment"
WatchMatches(ev) == ev = "available"

\* The deadline of the context the pod poll selects on: ctxWithTimeout, the
\* one WaitForDeployment was given.
PollDeadlineFresh(d, at) == at + operatorTimeout * 60
PollDeadline(d, at) == d

\* What Install does with the answer to its entry check.
AfterEntryCheckAlways(e) ==
    IF e.err THEN "return err" ELSE "apply"
AfterEntryCheck(e) ==
    IF e.err THEN "return err"
    ELSE IF e.val THEN "return nil"
    ELSE "apply"

\* Install up to the first store call of k8sClient.Apply(ctx, manifestPath).
Install ==
    /\ stage = "install"
    /\ ipc = "enter"
    /\ \E e \in ResourceExists("operator") :
          /\ Checked("entry check", e.err)
          /\ LET next == AfterEntryCheck(e) IN
             IF next = "apply"
             THEN /\ ApplyEnter("installer", manifestPath)
                  /\ ipc' = "apply"
                  /\ iApplies' = Count(iApplies)
                  /\ UNCHANGED mainVars
             ELSE /\ Return("install", IF next = "return nil" THEN NilErr
                                       ELSE InstallErr("exists check"))
                  /\ ipc' = "returned"
                  /\ UNCHANGED <<iApplies, applyVars, submitted, lookups,
                                 faults>>
    /\ Touch
    /\ UNCHANGED <<iWatches, iPodChecks, lastEvent, lastPhase, calls, callRets,
                   creates, clockVars,
                   pollVars, instKeeps>>

\* k8sClient.Apply has returned to Install; on success waitForOperatorReady
\* starts the deadline and opens the watch of WaitForDeployment.
InstallAfterApply ==
    /\ stage = "install"
    /\ ipc = "apply"
    /\ apc = "done"
    /\ caller = "installer"
    /\ apc' = "idle"
    /\ IF applyRet # NilErr
       THEN /\ Return("install", InstallErr("apply"))
            /\ ipc' = "returned"
            /\ UNCHANGED <<clockVars, iWatches, touched>>
       ELSE /\ iWatches' = Count(iWatches)
            /\ Touch
            /\ \/ /\ ipc' = "watch"
                  /\ now' = 0
                  /\ deadline' = operatorTimeout * 60
                  /\ watchAt' = WatchTimeout
                  /\ UNCHANGED <<mainVars, tickAt, tickEvery, tickBuf>>
               \/ /\ ipc' = "returned"
                  /\ Return("install", InstallErr("watch"))
                  /\ UNCHANGED clockVars
    /\ UNCHANGED <<iApplies, iPodChecks, lastEvent, lastPhase, caller, curFile,
                   readRV, applyRet, ops,
                   applyHist, pollVars, instFrame>>

\* case event, ok := <-ch of WaitForDeployment, with ok true
WatchEvent ==
    /\ stage = "install"
    /\ ipc = "watch"
    /\ \E ev \in WatchEvents :
          /\ lastEvent' = ev
          /\ IF WatchMatches(ev)
             THEN /\ ipc' = "poll"
                  /\ NewTicker(now, OperatorPollInterval)
                  /\ deadline' = PollDeadline(deadline, now)
             ELSE UNCHANGED <<ipc, tickAt, tickEvery, tickBuf, deadline>>
    /\ UNCHANGED <<mainVars, touched, now, watchAt, iApplies, iWatches,
                   iPodChecks, lastPhase, applyVars, applyHist, pollVars,
                   instFrame>>

\* case event, ok := <-ch of WaitForDeployment, with ok false
WatchClosed ==
    /\ stage = "install"
    /\ ipc = "watch"
    /\ ipc' = "returned"
    /\ Return("install", InstallErr("watch closed"))
    /\ StopClock
    /\ UNCHANGED <<touched, iApplies, iWatches, iPodChecks, lastEvent,
                   lastPhase, applyVars,
                   applyHist, pollVars, instFrame>>

\* case <-timeout of WaitForDeployment
WatchTimedOut ==
    /\ stage = "install"
    /\ ipc = "watch"
    /\ now >= watchAt
    /\ ipc' = "returned"
    /\ Return("install", InstallErr("watch timeout"))
    /\ StopClock
    /\ UNCHANGED <<touched, iApplies, iWatches, iPodChecks, lastEvent,
                   lastPhase, applyVars,
                   applyHist, pollVars, instFrame>>

\* case <-ctx.Done() of WaitForDeployment
WatchCtxDone ==
    /\ stage = "install"
    /\ ipc = "watch"
    /\ CtxDone
    /\ ipc' = "returned"
    /\ Return("install", InstallErr("context cancelled"))
    /\ StopClock
    /\ UNCHANGED <<touched, iApplies, iWatches, iPodChecks, lastEvent,
                   lastPhase, applyVars,
                   applyHist, pollVars, instFrame>>

\* What a tick of the pod poll does with the answer to its check.
OperatorOutcomeAnyPhase(p) ==
    IF p.err THEN "continue" ELSE "return nil"
OperatorOutcome(p) ==
    IF p.err THEN "continue"
    ELSE IF p.val = PhaseRunning THEN "return nil"
    ELSE "continue"

\* case <-ticker.C of waitForOperatorReady
waitForOperatorReadyTick ==
    /\ stage = "install"
    /\ ipc = "poll"
    /\ tickBuf
    /\ \E p \in GetPodStatus("operator") :
          /\ lastPhase' = IF Recording THEN p ELSE lastPhase
          /\ Checked("pod poll", p.err)
          /\ IF OperatorOutcome(p) = "return nil"
             THEN /\ ipc' = "returned"
                  /\ Return("install", NilErr)
                  /\ StopClock
             ELSE /\ tickBuf' = FALSE
                  /\ UNCHANGED <<ipc, mainVars, now, deadline, watchAt, tickAt,
                                 tickEvery>>
    /\ iPodChecks' = Count(iPodChecks)
    /\ Touch
    /\ UNCHANGED <<iApplies, iWatches, lastEvent,
                   applyVars, applyHist, pollVars, instKeeps>>

\* case <-ctxWithTimeout.Done() of waitForOperatorReady
waitForOperatorReadyDone ==
    /\ stage = "install"
    /\ ipc = "poll"
    /\ CtxDone
    /\ ipc' = "returned"
    /\ Return("install", InstallErr("pods timeout"))
    /\ StopClock
    /\ UNCHANGED <<touched, iApplies, iWatches, iPodChecks, lastEvent,
                   lastPhase, applyVars,
                   applyHist, pollVars, instFrame>>

\* --------------------------------------------------- DeploymentVerifier
VerifyErr(check) == [kind |-> "verify", check |-> check]

\* The label selector each tier check asks GetPodStatus about.
VerifySelector(t) ==
    IF t = 2 THEN "postgres"
    ELSE IF t = 3 THEN "web verify"
    ELSE "task verify"

\* A required check fails, and so does Verify.
VerifyFails(check) ==
    /\ vpc' = 0
    /\ Return("verify", VerifyErr(check))

VerifyGoesOn ==
    /\ vpc' = vpc + 1
    /\ UNCHANGED mainVars

\* What Verify does when a required check has returned: ok is err == nil.
AfterCheckCollect(ok) == "next"
AfterCheck(ok) == IF ok THEN "next" ELSE "return err"

\* A required check has returned after n calls to the store; failed says
\* that one of them returned an error.
VerifyChecked(check, ok, n, failed) ==
    /\ vCalls' = Append(vCalls, [check |-> check, ok |-> ok, calls |-> n,
                                 failed |-> failed])
    /\ IF AfterCheck(ok) = "next" THEN VerifyGoesOn ELSE VerifyFails(check)

\* The answer of a store call that was not made.
NotAsked == [err |-> FALSE, val |-> FALSE]

\* verifyAWXInstance
verifyAWXInstance ==
    /\ stage = "verify"
    /\ vpc = 1
    /\ \E e \in ResourceExists("awx") :
          VerifyChecked(1, ~e.err /\ e.val, 1, e.err)
    /\ Touch
    /\ UNCHANGED <<ingressLog, ingressSeen, pollVars, verFrame>>

\* A tier check passes: the deployment exists and the status of its pods
\* contains "Running".
TierVerifiedAnyStatus(e, p) ==
    ~e.err /\ e.val /\ ~p.err
TierVerified(e, p) ==
    ~e.err /\ e.val /\ ~p.err /\ Contains(p.val, PhaseRunning)

\* verifyPostgreSQL, verifyAWXWeb and verifyAWXTask
verifyTier(t) ==
    /\ stage = "verify"
    /\ vpc = t
    /\ \E e \in ResourceExists(WaitResource(t)) :
       \E p \in IF ~e.err /\ e.val THEN GetPodStatus(VerifySelector(t))
                 ELSE {NoPodStatus} :
          VerifyChecked(t, TierVerified(e, p),
                        IF p.made THEN 2 ELSE 1, e.err \/ p.err)
    /\ Touch
    /\ UNCHANGED <<ingressLog, ingressSeen, pollVars, verFrame>>

\* verifyServices: the second service is asked for when the first exists.
verifyServices ==
    /\ stage = "verify"
    /\ vpc = 5
    /\ \E e1 \in ResourceExists("service") :
       \E e2 \in IF ~e1.err /\ e1.val THEN ResourceExists("postgres-service")
                  ELSE {NotAsked} :
          VerifyChecked(5, ~e1.err /\ e1.val /\ ~e2.err /\ e2.val,
                        IF ~e1.err /\ e1.val THEN 2 ELSE 1, e1.err \/ e2.err)
    /\ Touch
    /\ UNCHANGED <<ingressLog, ingressSeen, pollVars, verFrame>>

\* What GetIngressStatus returns: a status, or an error.
GetIngressStatus == {[err |-> FALSE], [err |-> TRUE]}

\* What Verify does when verifyIngress has returned: it logs the error as
\* a warning and goes on to return nil.
AfterIngressHard(failed) == IF failed THEN "return err" ELSE "return nil"
AfterIngress(failed) == "return nil"

\* The line verifyIngress or Verify logs on the ingress:
\* "Warning: Ingress verification failed: ..." when a call failed,
\* "Ingress ... not configured, skipping status check." when it is absent,
\* "Ingress status for ..." otherwise.
IngressLine(failed, present) ==
    IF failed THEN "warning"
    ELSE IF present THEN "status"
    ELSE "not configured"

\* verifyIngress and the end of Verify.
verifyIngress ==
    /\ stage = "verify"
    /\ vpc = 6
    /\ \E e \in ResourceExists("ingress") :
       \E s \in IF ~e.err /\ e.val THEN GetIngressStatus ELSE {[err |-> FALSE]} :
          /\ ingressLog' = IngressLine(e.err \/ s.err, e.val)
          /\ ingressSeen' = IF e.err \/ s.err THEN "error"
                            ELSE IF e.val THEN "present"
                            ELSE "absent"
          /\ vCalls' = Append(vCalls,
                              [check |-> 6, ok |-> ~(e.err \/ s.err),
                               calls |-> IF ~e.err /\ e.val THEN 2 ELSE 1,
                               failed |-> e.err \/ s.err])
          /\ Return("verify", IF AfterIngress(e.err \/ s.err) = "return nil"
                              THEN NilErr ELSE VerifyErr(6))
    /\ vpc' = 7
    /\ Touch
    /\ UNCHANGED <<pollVars, verFrame>>

\* ------------------------------------------------- the environment
\* The program is blocked in a select.
Blocked ==
    \/ stage = "wait" /\ wpc = "select"
    \/ stage = "install" /\ ipc \in {"watch", "poll"}

\* The timers of the blocked select, with the ticker's next tick.
Timers ==
    {x \in IF stage = "install" /\ ipc = "watch" THEN {watchAt, deadline}
            ELSE {tickAt, deadline} : x > now}

\* One of the select's timer channels is ready.
TimerReady ==
    \/ CtxDone
    \/ IF stage = "install" /\ ipc = "watch" THEN now >= watchAt ELSE tickBuf

\* Time passes until the next timer fires.
AdvanceTime ==
    /\ Blocked
    /\ ~TimerReady
    /\ now < MaxTime
    /\ Timers # {}
    /\ LET next == CHOOSE x \in Timers : \A y \in Timers : x <= y
           ticking == ~(stage = "install" /\ ipc = "watch")
       IN
       /\ now' = next
       /\ tickBuf' = (ticking /\ tickAt <= next)
       /\ tickAt' = IF ticking /\ tickAt <= next THEN tickAt + tickEvery ELSE tickAt
    /\ UNCHANGED <<mainVars, touched, deadline, watchAt, tickEvery, pollVars,
                   waitVars, waitHist, waitFrame>>

\* The checks the poll loops have made.
ChecksMade ==
    ticks[1] + ticks[2] + ticks[3] + ticks[4] + iPodChecks

\* The caller cancels the context it passed to WaitForReady or Install
\* while the call is blocked in a select.
Cancel ==
    /\ Blocked
    /\ ~cancelled.is
    /\ cancelled' = [is |-> TRUE, at |-> now, tier |-> wTier,
                     checks |-> ChecksMade]
    /\ UNCHANGED <<mainVars, touched, cfgVars, storeVars, pollVars,
                   applierVars, applyVars, applyHist, clockVars, waitVars,
                   waitHist, instVars, verVars, acc, lastCall>>

\* The resources and selectors the program is waiting to read.
ResourcesInScope ==
    IF stage = "wait" /\ wpc = "select" THEN {WaitResource(wTier)}
    ELSE IF stage = "verify" /\ vpc = 1 THEN {"awx"}
    ELSE IF stage = "verify" /\ vpc \in 2..4 THEN {WaitResource(vpc)}
    ELSE IF stage = "verify" /\ vpc = 5 THEN {"service", "postgres-service"}
    ELSE IF stage = "verify" /\ vpc = 6 THEN {"ingress"}
    ELSE {}

SelectorsInScope ==
    IF stage = "wait" /\ wpc = "select" /\ wTier > 1 THEN {WaitSelector(wTier)}
    ELSE IF stage = "install" /\ ipc = "poll" THEN {"operator"}
    ELSE IF stage = "verify" /\ vpc \in 2..4 THEN {VerifySelector(vpc)}
    ELSE {}

\* A polled resource appears or disappears.
StoreResourceChange ==
    /\ \E r \in ResourcesInScope : exists' = [exists EXCEPT ![r] = ~@]
    /\ UNCHANGED <<mainVars, touched, pods, clockVars, waitVars, waitHist,
                   waitFrame>>

\* The pods a selector matches change.
StorePodChange ==
    /\ \E sel \in SelectorsInScope : \E list \in PodLists :
          /\ list # pods[sel]
          /\ pods' = [pods EXCEPT ![sel] = list]
    /\ UNCHANGED <<mainVars, touched, exists, clockVars, waitVars, waitHist,
                   waitFrame>>

Other == \E i \in DocIds : OtherWrite(i) \/ OtherDelete(i)

\* ------------------------------------------------------- the runs
InitCommon ==
    /\ ret = [s \in Stages |-> NoRet]
    /\ retExpired = FALSE
    /\ touched = [s \in Stages |-> FALSE]
    /\ otherOps = 0
    /\ pass = 1
    /\ passRet = [p \in 1..2 |-> NoRet]
    /\ snap = [i \in DocIds |-> Absent]
    /\ mpc = "enter"
    /\ files = <<>>
    /\ idx = 0
    /\ apc = "idle"
    /\ caller = "none"
    /\ curFile = <<>>
    /\ readRV = 0
    /\ applyRet = NilErr
    /\ ops = <<>>
    /\ calls = [p \in 1..2 |-> <<>>]
    /\ submitted = <<>>
    /\ lookups = <<>>
    /\ callRets = [p \in 1..2 |-> <<>>]
    /\ creates = [p \in 1..2 |-> [i \in DocIds |-> 0]]
    /\ faults = [p \in 1..2 |-> FALSE]
    /\ now = 0
    /\ deadline = 0
    /\ watchAt = 0
    /\ tickAt = 0
    /\ tickEvery = 0
    /\ tickBuf = FALSE
    /\ wpc = "enter"
    /\ wTier = 1
    /\ ticks = [t \in Tiers |-> 0]
    /\ existChecks = [t \in Tiers |-> 0]
    /\ lastTick = NoTick
    /\ readySeen = {}
    /\ ipc = "enter"
    /\ iApplies = 0
    /\ iWatches = 0
    /\ iPodChecks = 0
    /\ lastEvent = "none"
    /\ lastPhase = NoPodStatus
    /\ vpc = 1
    /\ ingressLog = "none"
    /\ ingressSeen = "none"
    /\ vCalls = <<>>
    /\ cancelled = NotCancelled
    /\ lastCall = NoCheck
    /\ acc = NoCall

NoneExists == [r \in Resources |-> FALSE]
NoPods == [sel \in Selectors |-> <<>>]

\* ManifestApplier.Apply called twice over one directory.
InitApply ==
    /\ InitCommon
    /\ pods = NoPods
    /\ run = "applier"
    /\ stage = "apply"
    /\ dirExists \in BOOLEAN
    /\ dir \in IF dirExists THEN SUBSET FilePool ELSE {{}}
    /\ objs \in [DocIds -> {Absent, Old}]
    /\ store0 = objs
    /\ exists = NoneExists
    /\ timeout = ReadyTimeout
    /\ operatorTimeout = 15

ApplySteps ==
    \/ ApplyCreate
    \/ ApplyGet
    \/ ApplyUpdate

ApplierSteps ==
    \/ ApplierStart
    \/ ApplierCall
    \/ ApplierAfterApply

NextApply == ApplierSteps \/ ApplySteps \/ Other

SpecApply == InitApply /\ [][NextApply]_vars

\* WaitForReady called alone.
InitWait ==
    /\ InitCommon
    /\ pods = NoPods
    /\ run = "waiter"
    /\ stage = "wait"
    /\ dirExists = TRUE
    /\ dir = {}
    /\ objs = [i \in DocIds |-> Absent]
    /\ store0 = objs
    /\ exists = NoneExists
    /\ timeout \in WaitTimeouts
    /\ operatorTimeout = 15

WaitSteps ==
    \/ WaitForReady
    \/ waitForAWXInstanceTick
    \/ \E t \in 2..4 : waitForTierTick(t)
    \/ SubWaitDone

StoreChange == StoreResourceChange \/ StorePodChange

NextWait == WaitSteps \/ AdvanceTime \/ StoreChange

SpecWait == InitWait /\ [][NextWait]_vars

\* Install called alone.
InitInstall ==
    /\ InitCommon
    /\ pods = NoPods
    /\ run = "installer"
    /\ stage = "install"
    /\ dirExists = TRUE
    /\ dir \in {{}, {manifestPath}}
    /\ objs \in [DocIds -> {Absent, Old}]
    /\ store0 = objs
    /\ exists \in {[NoneExists EXCEPT !["operator"] = b] : b \in BOOLEAN}
    /\ timeout = ReadyTimeout
    /\ operatorTimeout \in OperatorTimeouts

InstallSteps ==
    \/ Install
    \/ InstallAfterApply
    \/ WatchEvent
    \/ WatchClosed
    \/ WatchTimedOut
    \/ WatchCtxDone
    \/ waitForOperatorReadyTick
    \/ waitForOperatorReadyDone

NextInstall == InstallSteps \/ ApplySteps \/ AdvanceTime \/ StorePodChange \/ Other

SpecInstall == InitInstall /\ [][NextInstall]_vars

\* Verify called alone.
InitVerify ==
    /\ InitCommon
    /\ pods = NoPods
    /\ run = "verifier"
    /\ stage = "verify"
    /\ dirExists = TRUE
    /\ dir = {}
    /\ objs = [i \in DocIds |-> Absent]
    /\ store0 = objs
    /\ exists \in {e \in [Resources -> BOOLEAN] : ~e["operator"]}
    /\ timeout = ReadyTimeout
    /\ operatorTimeout = 15

VerifySteps ==
    \/ verifyAWXInstance
    \/ \E t \in 2..4 : verifyTier(t)
    \/ verifyServices
    \/ verifyIngress

NextVerify == VerifySteps \/ StoreChange

SpecVerify == InitVerify /\ [][NextVerify]_vars

\* WaitForReady and then, when it returned nil, Verify, as main calls
\* them, over a store that does not change.
FixedStores ==
    {e \in [Resources -> BOOLEAN] :
        ~e["operator"] /\ e["service"] /\ e["postgres-service"] /\ ~e["ingress"]}

FixedPods ==
    {q \in [Selectors -> {<<>>, <<PhaseRunning>>, <<PhasePending>>}] :
        q["operator"] = <<>>}

InitHandover ==
    /\ InitCommon
    /\ pods \in FixedPods
    /\ run = "handover"
    /\ stage = "wait"
    /\ dirExists = TRUE
    /\ dir = {}
    /\ objs = [i \in DocIds |-> Absent]
    /\ store0 = objs
    /\ exists \in FixedStores
    /\ timeout = 130
    /\ operatorTimeout = 15

NextHandover == WaitSteps \/ AdvanceTime \/ VerifySteps

SpecHandover == InitHandover /\ [][NextHandover]_vars

\* The accessor's functions called alone, on a store that does not change.
AccessorStores ==
    {e \in [Resources -> BOOLEAN] :
        \A r \in Resources \ {"awx", "postgres", "ingress"} : ~e[r]}
AccessorPods ==
    {q \in [Selectors -> PodLists] :
        \A sel \in Selectors \ {"operator", "postgres"} : q[sel] = <<>>}

InitAccessor ==
    /\ InitCommon
    /\ pods \in AccessorPods
    /\ run = "accessor"
    /\ stage = "accessor"
    /\ dirExists = TRUE
    /\ dir = {}
    /\ objs = [i \in DocIds |-> Absent]
    /\ store0 = objs
    /\ exists \in AccessorStores
    /\ timeout = ReadyTimeout
    /\ operatorTimeout = 15

accFrame == <<mainVars, touched, cfgVars, storeVars, pollVars, applierVars,
              applyVars, applyHist, clockVars, waitVars, waitHist, instVars,
              verVars, cancelled, lastCall>>

\* ResourceExists(ctx, ..., name, namespace)
CallResourceExists ==
    /\ run = "accessor"
    /\ \E r \in Resources : \E a \in GetAnswers(r) :
          acc' = [fn |-> "ResourceExists", arg |-> r, answer |-> a,
                  out |-> ResourceExistsResult(a)]
    /\ UNCHANGED accFrame

\* GetPodStatus(ctx, labelSelector, namespace), and what the waiter's
\* tick, the installer's tick and the verifier's tier check make of the
\* status when the tier's deployment exists.
CallGetPodStatus ==
    /\ run = "accessor"
    /\ \E sel \in Selectors : \E a \in ListAnswers(sel) :
          LET p == GetPodStatusResult(a)
              found == ResourceExistsResult("ok")
          IN acc' = [fn |-> "GetPodStatus", arg |-> sel, answer |-> a,
                     out |-> p,
                     waiter |-> TickOutcome(found, p),
                     installer |-> OperatorOutcome(p),
                     verifier |-> TierVerified(found, p)]
    /\ UNCHANGED accFrame

\* The choice of the namespace in Apply.
CallApplyNamespace ==
    /\ run = "accessor"
    /\ \E resource \in ApplyResources : \E namespace \in DocNamespaces :
          acc' = [fn |-> "Apply", resource |-> resource, ns |-> namespace,
                  out |-> ApplyNamespace(resource, namespace)]
    /\ UNCHANGED accFrame

\* The values of AWX_NAME: "awx", "a" and "awx-demo".
WorkloadNames ==
    {<<97, 119, 120>>, <<97>>, <<97, 119, 120, 45, 100, 101, 109, 111>>}

\* The places where the waiter and the verifier derive an object's name.
NameSites ==
    {"wait postgres", "wait web", "wait task", "verify postgres",
     "verify web", "verify task", "service", "service postgres", "ingress"}

\* "-postgres-15", "-web", "-task", "-service" and "-ingress"
SuffixPostgres15 == <<45, 112, 111, 115, 116, 103, 114, 101, 115, 45, 49, 53>>
SuffixPostgres13 == <<45, 112, 111, 115, 116, 103, 114, 101, 115, 45, 49, 51>>
SuffixWeb == <<45, 119, 101, 98>>
SuffixTask == <<45, 116, 97, 115, 107>>
SuffixService == <<45, 115, 101, 114, 118, 105, 99, 101>>
SuffixIngress == <<45, 105, 110, 103, 114, 101, 115, 115>>

\* fmt.Sprintf("%s-...", config.AWXName) at each of the places.
ObjectNameDrifted(site, W) ==
    IF site \in {"wait postgres", "verify postgres"} THEN W \o SuffixPostgres15
    ELSE IF site = "service postgres" THEN W \o SuffixPostgres13
    ELSE IF site \in {"wait web", "verify web"} THEN W \o SuffixWeb
    ELSE IF site \in {"wait task", "verify task"} THEN W \o SuffixTask
    ELSE IF site = "service" THEN W \o SuffixService
    ELSE W \o SuffixIngress
ObjectName(site, W) ==
    IF site \in {"wait postgres", "verify postgres", "service postgres"}
    THEN W \o SuffixPostgres15
    ELSE IF site \in {"wait web", "verify web"} THEN W \o SuffixWeb
    ELSE IF site \in {"wait task", "verify task"} THEN W \o SuffixTask
    ELSE IF site = "service" THEN W \o SuffixService
    ELSE W \o SuffixIngress

\* The names the waiter and the verifier derive from a workload name.
CallObjectNames ==
    /\ run = "accessor"
    /\ \E W \in WorkloadNames :
          acc' = [fn |-> "names", W |-> W,
                  out |-> [site \in NameSites |-> ObjectName(site, W)]]
    /\ UNCHANGED accFrame

NextAccessor ==
    CallResourceExists \/ CallGetPodStatus \/ CallApplyNamespace
    \/ CallObjectNames

SpecAccessor == InitAccessor /\ [][NextAccessor]_vars

\* main: the four stages in order.
MainDirs == {{}, {FileNotes}, {FileA, FileAB}, {FileA, manifestPath, FileNotes}}

InitMain ==
    /\ InitCommon
    /\ pods = NoPods
    /\ run = "main"
    /\ stage = "install"
    /\ dirExists \in BOOLEAN
    /\ dir \in IF dirExists THEN MainDirs ELSE {{}}
    /\ objs \in {[i \in DocIds |-> Absent], [i \in DocIds |-> Old]}
    /\ store0 = objs
    /\ exists \in {[NoneExists EXCEPT !["operator"] = b] : b \in BOOLEAN}
    /\ timeout = ReadyTimeout
    /\ operatorTimeout \in OperatorTimeouts

\* The writes of other actors to applied objects are left to the applier's
\* run: to main they are one more way for Apply to return an error, which
\* the faulting answers of the store already are.
Next ==
    \/ InstallSteps
    \/ ApplierSteps
    \/ ApplySteps
    \/ WaitSteps
    \/ VerifySteps
    \/ AdvanceTime
    \/ StoreChange

Init == InitMain

Spec == Init /\ [][Next]_vars

\* The steps the deployer takes by itself once they are possible: every
\* step but the delivery of a watch event and the closing of the watch
\* channel, which are the cluster's.
Progress ==
    \/ Install
    \/ InstallAfterApply
    \/ WatchTimedOut
    \/ WatchCtxDone
    \/ waitForOperatorReadyTick
    \/ waitForOperatorReadyDone
    \/ ApplierSteps
    \/ ApplySteps
    \/ WaitSteps
    \/ VerifySteps

\* main with a scheduler that runs a goroutine that can run, store calls
\* that return, and time that passes.
SpecLive == Init /\ [][Next]_vars /\ WF_vars(Progress) /\ WF_vars(AdvanceTime)

\* ============================================== properties of the deployer
\* The documents of the directory have pairwise distinct identities.
DistinctDocs ==
    \A f, g \in GlobMatches(dir) : f # g => DocOf(f) # DocOf(g)

\* The *.yaml file names of the directory, by the suffix alone.
YamlNames == {f \in dir : Len(f) >= 5 /\ SubSeq(f, Len(f) - 4, Len(f)) = YamlExt}

\* s is in strictly increasing byte-wise order.
Increasing(s) ==
    \A i, j \in 1..Len(s) : i < j => StringLess(s[i], s[j])

Range(s) == {s[i] : i \in 1..Len(s)}

\* C1 (idempotent apply).  ManifestApplier.Apply is run twice over one
\* directory of documents with pairwise distinct identities, against any
\* store, with no fault in the second pass and no other writer: when the
\* first pass returned nil, the second returns nil, creates no object, and
\* leaves the store with the identities and contents the first pass left.
C1_Idempotent ==
    ( /\ run = "applier"
      /\ passRet[2] # NoRet
      /\ passRet[1] = NilErr
      /\ DistinctDocs
      /\ ~faults[2]
      /\ otherOps = 0 )
    => /\ passRet[2] = NilErr
       /\ VisibleStore(objs) = VisibleStore(snap)
       /\ \A i \in DocIds : creates[2][i] = 0

\* Both passes over two documents or more are over, and the second pass
\* went through get and update on an object the first pass had written.
C1_Witness ==
    /\ run = "applier"
    /\ passRet[1] = NilErr
    /\ passRet[2] = NilErr
    /\ DistinctDocs
    /\ ~faults[2]
    /\ otherOps = 0
    /\ Len(calls[2]) >= 2
    /\ \E i \in DocIds : objs[i].present /\ objs[i].rv >= 2

\* C2 (apply protocol).  For one document k8sClient.Apply makes a create
\* first; a get follows only a create answered AlreadyExists and an update
\* only a get that succeeded; the update carries the version token the get
\* read; Apply returns nil exactly when the create succeeded or the update
\* succeeded, and an error when the create failed otherwise or the get or
\* the update failed.
C2_Protocol ==
    /\ Len(ops) <= 3
    /\ Len(ops) >= 1 => ops[1].op = "create"
    /\ Len(ops) >= 2 => ops[1].answer = "AlreadyExists" /\ ops[2].op = "get"
    /\ Len(ops) >= 3 => /\ ops[2].answer = "ok"
                        /\ ops[3].op = "update"
                        /\ ops[3].rv = ops[2].rv
    /\ apc \in {"get", "update"} => Len(ops) >= 1
    /\ (apc = "done" /\ applyRet = NilErr) =>
          /\ Len(ops) \in {1, 3}
          /\ ops[Len(ops)].answer = "ok"
    /\ (apc = "done" /\ Len(ops) >= 1 /\ applyRet # NilErr) =>
          /\ ops[Len(ops)].answer # "ok"
          /\ Len(ops) = 1 => ops[1].answer # "AlreadyExists"

\* An Apply that found its object present has got it and updated it.
C2_Witness ==
    /\ apc = "done"
    /\ applyRet = NilErr
    /\ Len(ops) = 3
    /\ ops[1].answer = "AlreadyExists"
    /\ ops[3].answer = "ok"
    /\ ops[3].rv = ops[2].rv
    /\ ops[3].rv >= 1

\* C3 (fail fast).  A call of k8sClient.Apply that returned an error is
\* the last call ManifestApplier.Apply makes; the error it returns names
\* the file of that call; and, with distinct identities and no other
\* writer, the documents applied before it are still in the store with
\* the content applied.
C3_FailFast ==
    \A p \in 1..2 :
       /\ \A j \in 1..Len(callRets[p]) :
             ~callRets[p][j] =>
                /\ j = Len(calls[p])
                /\ passRet[p] = StageErr("apply", calls[p][j])
       /\ (passRet[p] # NoRet /\ passRet[p] # NilErr /\ passRet[p].cause = "apply") =>
             /\ Len(calls[p]) >= 1
             /\ Len(callRets[p]) = Len(calls[p])
             /\ ~callRets[p][Len(calls[p])]
             /\ (DistinctDocs /\ otherOps = 0) =>
                   \A j \in 1..(Len(calls[p]) - 1) :
                      /\ objs[DocOf(calls[p][j])].present
                      /\ objs[DocOf(calls[p][j])].content = calls[p][j]

\* The second of three documents failed in the first pass: the first
\* stays applied and the third is never submitted.
C3_Witness ==
    /\ Cardinality(GlobMatches(dir)) >= 3
    /\ DistinctDocs
    /\ otherOps = 0
    /\ passRet[1] # NoRet
    /\ passRet[1] # NilErr
    /\ passRet[1].cause = "apply"
    /\ Len(calls[1]) = 2
    /\ callRets[1] = <<TRUE, FALSE>>
    /\ objs[DocOf(calls[1][1])].content = calls[1][1]

\* C4 (deterministic order).  The files ManifestApplier.Apply submits are,
\* in order, the smallest *.yaml names of the directory in byte-wise
\* increasing order; all of them when it returned nil; so two passes over
\* one directory that submit as many files submit the same sequence.
C4_Order ==
    /\ \A p \in 1..2 :
          /\ Increasing(calls[p])
          /\ Range(calls[p]) \subseteq YamlNames
          /\ \A f \in YamlNames \ Range(calls[p]) :
                \A g \in Range(calls[p]) : StringLess(g, f)
          /\ passRet[p] = NilErr => Range(calls[p]) = YamlNames
    /\ Len(calls[1]) = Len(calls[2]) => calls[1] = calls[2]

\* Two passes over a directory went through its three *.yaml files, the
\* one that sorts first being "a-b.yaml", with a file that is no manifest
\* beside them.
C4_Witness ==
    /\ passRet[1] = NilErr
    /\ passRet[2] = NilErr
    /\ Len(calls[2]) >= 3
    /\ calls[2][1] = FileAB
    /\ calls[1] = calls[2]
    /\ FileNotes \in dir

\* The place of a stage in main.
StageNo(s) ==
    IF s = "install" THEN 1
    ELSE IF s = "apply" THEN 2
    ELSE IF s = "wait" THEN 3
    ELSE 4

\* C5 (pipeline gating).  In a run of main a stage is entered, calls the
\* store or returns only when every stage before it returned nil, the
\* stages being Install, Apply, WaitForReady, Verify in this order; and
\* once a stage returned an error main is over and no later stage has
\* called the store or returned.
C5_Gating ==
    run = "main" =>
       \A s \in Stages :
          /\ (stage = s \/ touched[s] \/ ret[s] # NoRet) =>
                \A q \in Stages : StageNo(q) < StageNo(s) => ret[q] = NilErr
          /\ (ret[s] # NoRet /\ ret[s] # NilErr) =>
                /\ stage = "exit1"
                /\ \A q \in Stages :
                      StageNo(q) > StageNo(s) => ~touched[q] /\ ret[q] = NoRet

\* A run of main that made store calls in each of the four stages, every
\* stage having returned nil.
C5_Witness ==
    /\ run = "main"
    /\ stage = "exit0"
    /\ \A s \in Stages : touched[s] /\ ret[s] = NilErr

\* C6 (sub-waits in sequence under one deadline).  WaitForReady runs the
\* sub-waits for the custom resource, the database, the web and the task
\* tier in this order: only the active sub-wait makes checks, the sub-wait
\* after it becomes active only by a tick of the active one that returned
\* nil, and the deadline of every sub-wait is the one fixed at entry,
\* timeout after the entry.
C6_Sequential ==
    /\ [](run = "waiter" =>
            /\ \A t \in Tiers : ticks[t] > 0 => t <= wTier
            /\ \A t \in Tiers : t < wTier => ticks[t] > 0
            /\ wpc = "select" => deadline = timeout)
    /\ [][run = "waiter" =>
            /\ \A t \in Tiers : ticks'[t] # ticks[t] => t = wTier
            /\ (wTier' # wTier /\ wpc = "select") =>
                  /\ wTier' = wTier + 1
                  /\ lastTick'.tier = wTier
                  /\ lastTick'.outcome = "return nil"
                  /\ ticks'[wTier'] = 0
            /\ (wpc = "select" /\ wpc' = "select") => deadline' = deadline]_vars

\* The four sub-waits returned nil one after the other, the database one
\* after more than one tick.
C6_Witness ==
    /\ run = "waiter"
    /\ ret["wait"] = NilErr
    /\ wTier = 4
    /\ ticks[2] >= 2
    /\ \A t \in Tiers : ticks[t] >= 1

\* C7 (soft failure).  A tick whose existence check or pod check returned
\* an error leaves the sub-wait running; WaitForReady returns an error only
\* with its deadline reached, and the error is the timeout of the active
\* tier, the first one no tick has reported ready.
C7_SoftFailure ==
    run = "waiter" =>
       /\ (lastTick.e.err \/ lastTick.p.err) =>
             /\ lastTick.outcome = "continue"
             /\ wTier = lastTick.tier
             /\ ret["wait"] # NilErr
       /\ (ret["wait"] # NoRet /\ ret["wait"] # NilErr) =>
             /\ retExpired
             /\ ret["wait"] = WaitErr(wTier)
             /\ wTier \notin readySeen
             /\ \A t \in Tiers : t < wTier => t \in readySeen

\* The deadline ended the web sub-wait after a tick of it whose pod check
\* had returned an error.
C7_Witness ==
    /\ run = "waiter"
    /\ ret["wait"] = WaitErr(3)
    /\ retExpired
    /\ lastTick.tier = 3
    /\ lastTick.p.err

\* WaitForReady called alone, or Install called alone.
InitPoll == InitWait \/ InitInstall

NextPoll == NextWait \/ NextInstall

SpecPoll == InitPoll /\ [][NextPoll]_vars

\* WaitForReady or Install called alone by a caller that may cancel.
NextCancel ==
    WaitSteps \/ InstallSteps \/ ApplySteps \/ AdvanceTime \/ StoreChange
    \/ Cancel

SpecCancel == InitPoll /\ [][NextCancel]_vars

\* C8 (timeout fidelity).  With store calls that take no time, a sub-wait
\* of WaitForReady is not waiting later than timeout + 30 s after the
\* entry and the pod poll of waitForOperatorReady not later than
\* OperatorTimeout minutes + 10 s after its entry; the error of a wait
\* that was never reported ready is returned with the deadline reached and
\* names the tier, or the operator pods.
C8_TimeoutFidelity ==
    /\ (run = "waiter" /\ wpc = "select") => now <= timeout + PollInterval
    /\ (run = "installer" /\ ipc = "poll") =>
          now <= operatorTimeout * 60 + OperatorPollInterval
    /\ (run = "waiter" /\ wpc = "returned" /\ readySeen # Tiers) =>
          /\ retExpired
          /\ ret["wait"] = WaitErr(wTier)
          /\ wTier \notin readySeen
    /\ (run = "installer" /\ ipc = "returned"
          /\ ret["install"] = InstallErr("pods timeout")) => retExpired

\* The database sub-wait was polled more than once, was never reported
\* ready and returned the timeout of the database tier.
C8_Witness ==
    /\ run = "waiter"
    /\ timeout >= 2 * PollInterval
    /\ ret["wait"] = WaitErr(2)
    /\ retExpired
    /\ 2 \notin readySeen
    /\ ticks[2] >= 2

\* C9 (tick accounting).  Each tick of a sub-wait makes one existence
\* check; the sub-wait is over with the first tick whose checks report the
\* tier ready, which is its last tick and check, and it is over with
\* nothing else; WaitForReady returns nil once the four tiers were
\* reported ready.
C9_TickAccounting ==
    /\ [](run = "waiter" =>
            /\ \A t \in Tiers : existChecks[t] = ticks[t]
            /\ \A t \in Tiers :
                  (t \in readySeen) <=> (t < wTier \/ ret["wait"] = NilErr)
            /\ (lastTick.tier # 0 /\ lastTick.outcome = "return nil") =>
                  ReportsReady(lastTick.tier, lastTick.e, lastTick.p)
            /\ (ret["wait"] = NilErr) <=> (readySeen = Tiers))
    /\ [][run = "waiter" =>
            \A t \in Tiers :
               t \in readySeen =>
                  ticks'[t] = ticks[t] /\ existChecks'[t] = existChecks[t]]_vars

\* The custom resource existed at the first tick and was checked once, the
\* database was Running at its third tick, and WaitForReady returned nil.
C9_Witness ==
    /\ run = "waiter"
    /\ ret["wait"] = NilErr
    /\ ticks[1] = 1
    /\ existChecks[1] = 1
    /\ ticks[2] = 3
    /\ existChecks[2] = 3

\* C10 (skip install).  On a store where the operator deployment exists,
\* Install returns nil, or the error of the entry check, without a call of
\* Apply, a watch or a pod check, and no step of it changes the store.
C10_SkipInstall ==
    /\ [](run = "installer" /\ exists["operator"] =>
            /\ iApplies = 0
            /\ iWatches = 0
            /\ iPodChecks = 0
            /\ apc = "idle"
            /\ ret["install"] \in {NoRet, NilErr, InstallErr("exists check")})
    /\ [][run = "installer" /\ exists["operator"] =>
            UNCHANGED <<objs, exists, pods>>]_vars

\* Install returned nil on a store that holds the operator deployment and
\* other objects.
C10_Witness ==
    /\ run = "installer"
    /\ exists["operator"]
    /\ ret["install"] = NilErr
    /\ touched["install"]
    /\ \E i \in DocIds : objs[i].present

\* The errors Install returns when WaitForDeployment failed.
WatchErrs ==
    {InstallErr("watch"), InstallErr("watch closed"),
     InstallErr("watch timeout"), InstallErr("context cancelled")}

\* The answer to a pod check reports the phase Running.
SaysRunning(p) == p.made /\ ~p.err /\ p.val = PhaseRunning

\* C11 (installer state machine).  With the operator deployment absent at
\* entry, Install returns nil only after Apply of the installation
\* document returned nil, then a watch event showed the deployment
\* available, then a pod check answered Running; a watch is opened only
\* after Apply returned nil and a pod check made only after the available
\* event; a failed Apply leaves no watch and no pod check behind, a failed
\* watch no pod check.
C11_InstallerOrder ==
    (run = "installer" /\ ~exists["operator"]) =>
       /\ ret["install"] = NilErr =>
             /\ iApplies = 1
             /\ applyRet = NilErr
             /\ iWatches = 1
             /\ lastEvent = "available"
             /\ iPodChecks >= 1
             /\ SaysRunning(lastPhase)
       /\ iWatches > 0 => iApplies = 1 /\ applyRet = NilErr /\ apc = "idle"
       /\ lastEvent # "none" => iWatches = 1
       /\ iPodChecks > 0 => lastEvent = "available"
       /\ ret["install"] = InstallErr("apply") =>
             applyRet # NilErr /\ iWatches = 0 /\ iPodChecks = 0
       /\ ret["install"] \in WatchErrs => iPodChecks = 0

\* Install went from the absent deployment through Apply, the watch and
\* more than one pod check to nil.
C11_Witness ==
    /\ run = "installer"
    /\ ~exists["operator"]
    /\ ret["install"] = NilErr
    /\ iApplies = 1
    /\ lastEvent = "available"
    /\ iPodChecks >= 2

C13_WatchMatch ==
    run = "installer" =>
       /\ ipc = "watch" => lastEvent # "available"
       /\ lastEvent \in {"unavailable", "not a deployment"} =>
             /\ ipc \in {"watch", "returned"}
             /\ ret["install"] # NilErr
             /\ iPodChecks = 0
       /\ (ipc = "poll" \/ iPodChecks > 0) => lastEvent = "available"
       /\ (ipc = "returned" /\ iWatches > 0 /\ ret["install"] \notin WatchErrs)
             => lastEvent = "available"

\* WaitForDeployment has just returned nil on the available event.
C13_Witness ==
    /\ run = "installer"
    /\ ipc = "poll"
    /\ lastEvent = "available"
    /\ iPodChecks = 0

\* C14 (watch failure classification).  Stated as the specification
\* states it: a wait for the deployment that the time ended, the deadline
\* of the caller's context included, has failed with the timeout error.
\* WaitForDeployment answers the expiry of its context with the error
\* "context cancelled waiting for deployment to be ready" instead.
C14_TimeoutIsTimeoutError ==
    ( /\ run = "installer"
      /\ ipc = "returned"
      /\ ret["install"] \in WatchErrs
      /\ ret["install"] \notin {InstallErr("watch"), InstallErr("watch closed")} )
    => ret["install"] = InstallErr("watch timeout")

\* C15 (the watch is bounded by the configured timeout alone).  Stated as
\* the specification states it: a wait for the deployment that failed for
\* the time it took has failed with OperatorTimeout minutes elapsed.
\* WaitForDeployment's own time.After(15 * time.Minute) ends it earlier
\* when OperatorTimeout is more than 15.
C15_BoundedByConfig ==
    ( /\ run = "installer"
      /\ ipc = "returned"
      /\ ret["install"] \in
            {InstallErr("watch timeout"), InstallErr("context cancelled")} )
    => retExpired

\* ----------------------------------------------------------------------
\* C16 (verifier order and fail-fast): Verify makes the required checks
\* once each in the order primary resource, database tier, web tier,
\* worker tier, services; a check that fails is the last one made, the
\* error Verify returns names it, no store call is made for a later check,
\* and Verify returns nil only after all five have passed.
RequiredCalls == SelectSeq(vCalls, LAMBDA c : c.check <= 5)

C16_VerifyOrder ==
    run = "verifier" =>
        /\ \A j \in 1..Len(RequiredCalls) : RequiredCalls[j].check = j
        /\ \A j \in 1..Len(vCalls) : vCalls[j].check = j
        /\ \A j \in 1..Len(RequiredCalls) :
              ~RequiredCalls[j].ok =>
                  /\ j = Len(vCalls)
                  /\ stage = "returned"
                  /\ ret["verify"] = VerifyErr(j)
        /\ \A j \in 1..Len(RequiredCalls) : RequiredCalls[j].calls \in 1..2
        /\ (stage = "returned" /\ ret["verify"] = NilErr) =>
              /\ Len(RequiredCalls) = 5
              /\ \A j \in 1..5 : RequiredCalls[j].ok
        /\ (stage = "returned" /\ ret["verify"] # NilErr) =>
              \E k \in 1..5 :
                 /\ ret["verify"] = VerifyErr(k)
                 /\ Len(vCalls) = k
                 /\ ~vCalls[k].ok
                 /\ \A j \in 1..(k - 1) : vCalls[j].ok

\* Verify has failed at the web tier, after the first two checks passed.
C16_Witness ==
    /\ run = "verifier"
    /\ stage = "returned"
    /\ ret["verify"] = VerifyErr(3)
    /\ Len(vCalls) = 3
    /\ vCalls[1].ok /\ vCalls[2].ok

\* ----------------------------------------------------------------------
\* C17 (soft-fail ingress): what Verify returns is determined by the five
\* required checks alone, whatever the ingress check finds (the ingress
\* present, absent, or its calls failing); when all required checks pass
\* and the ingress is absent, Verify returns nil and a line on the absent
\* ingress is in the log.
FirstFailed ==
    IF \E j \in 1..Len(RequiredCalls) : ~RequiredCalls[j].ok
    THEN VerifyErr(CHOOSE j \in 1..Len(RequiredCalls) :
                      /\ ~RequiredCalls[j].ok
                      /\ \A i \in 1..(j - 1) : RequiredCalls[i].ok)
    ELSE NilErr

C18_VerifyAfterWait ==
    (run = "handover" /\ ret["wait"] = NilErr) =>
        \A j \in 1..Len(vCalls) :
            (vCalls[j].check <= 4 /\ ~vCalls[j].failed) => vCalls[j].ok

\* ----------------------------------------------------------------------
\* C19 (at most once per run): in one run of main no document is handed
\* to KubernetesClient.Apply twice, the installer's and the applier's
\* calls counted together.
C19_AtMostOnce ==
    run = "main" =>
        \A i, j \in 1..Len(submitted) :
            submitted[i].file = submitted[j].file => i = j

\* ----------------------------------------------------------------------
\* What a run of ManifestApplier.Apply in which every call succeeds leaves
\* of a store: each file of the sorted list written in turn.
RECURSIVE FaultFree(_, _)
FaultFree(store, fs) ==
    IF fs = <<>> THEN store
    ELSE FaultFree([store EXCEPT ![DocOf(Head(fs))] =
                       [present |-> TRUE, content |-> Head(fs)]],
                   Tail(fs))

\* The first call of ManifestApplier.Apply failed at its k-th document.
FailedAt(k) ==
    /\ passRet[1].kind = "stage"
    /\ passRet[1].cause = "apply"
    /\ Len(calls[1]) = k
    /\ passRet[1].file = calls[1][k]

\* C20 (re-run after a partial failure).  The first call of
\* ManifestApplier.Apply failed at its k-th document through a fault of the
\* store; the second call, over the same directory, with no fault and no
\* other writer, returns nil and leaves the objects a single fault-free
\* call leaves of the original store, and it applies documents 1..k-1 again
\* without error and without creating their objects (through get and
\* update).
C20_Rerun ==
    \A k \in 1..Cardinality(FilePool) :
        ( /\ run = "applier"
          /\ FailedAt(k)
          /\ passRet[2] # NoRet
          /\ ~faults[2]
          /\ otherOps = 0 )
        => /\ passRet[2] = NilErr
           /\ VisibleStore(objs) = FaultFree(VisibleStore(store0), files)
           /\ Range(files) = YamlNames
           /\ \A j \in 1..(k - 1) :
                 /\ calls[2][j] = calls[1][j]
                 /\ callRets[1][j]
                 /\ callRets[2][j]
                 /\ creates[2][DocOf(calls[2][j])] = 0

\* The first call failed at its third document and the second call, free
\* of faults, has returned nil.
C20_Witness ==
    /\ run = "applier"
    /\ FailedAt(3)
    /\ faults[1]
    /\ ~faults[2]
    /\ otherOps = 0
    /\ passRet[2] = NilErr
    /\ Len(calls[2]) >= 3

\* ----------------------------------------------------------------------
\* The object the running call of KubernetesClient.Apply addresses.
Target == objs[DocOf(curFile)]

\* C21 (optimistic concurrency).  When another writer has changed the
\* object between Apply's re-read and its update, the update carries the
\* version read, which is stale; the store rejects it; Apply returns the
\* update error after this one update, without another get or update; and
\* the step leaves the other writer's version of the object in the store.
C21_StaleUpdate ==
    /\ [](apc = "done" /\ Len(ops) >= 3 =>
            /\ Len(ops) = 3
            /\ ops[3].op = "update"
            /\ ops[3].rv = ops[2].rv
            /\ ops[3].answer # "ok" => applyRet = ApplyErr("update", curFile))
    /\ [][(apc = "update" /\ apc' # "update" /\ Target.rv # readRV) =>
             /\ apc' = "done"
             /\ objs' = objs
             /\ ops'[Len(ops')].rv = readRV
             /\ ops'[Len(ops')].answer \in {"Conflict", "NotFound", "fault"}
             /\ applyRet' = ApplyErr("update", curFile)]_vars

\* Another writer wrote the object after the get, and the update was
\* answered with a conflict: the store holds the other writer's content.
C21_Witness ==
    /\ apc = "done"
    /\ Len(ops) = 3
    /\ ops[2].answer = "ok"
    /\ ops[3].answer = "Conflict"
    /\ otherOps = 1
    /\ Target.present
    /\ Target.content = OtherContent
    /\ Target.rv = ops[3].rv + 1
    /\ applyRet = ApplyErr("update", curFile)

\* ----------------------------------------------------------------------
\* main has ended: by log.Fatalf, which exits with status 1, or by
\* returning after the final lines, which exits with status 0.
ExitedNonZero == stage = "exit1"
ExitedZero == stage = "exit0"
\* The lines with the endpoint, the admin user and the admin password are
\* printed on the way to the return from main.
AccessInfoEmitted == stage = "exit0"

Failed(s) == ret[s] # NoRet /\ ret[s] # NilErr

C25_ResourceExists ==
    acc.fn = "ResourceExists" =>
        /\ acc.answer = "ok" => acc.out = [err |-> FALSE, val |-> TRUE]
        /\ acc.answer = "NotFound" => acc.out = [err |-> FALSE, val |-> FALSE]
        /\ acc.out.err <=> acc.answer = "fault"
        /\ acc.out.err => ~acc.out.val
        /\ ~acc.out.err => acc.out.val = exists[acc.arg]

\* ResourceExists was asked for an object the store does not hold, and
\* has answered (false, nil).
C25_Witness ==
    /\ acc.fn = "ResourceExists"
    /\ ~exists[acc.arg]
    /\ acc.answer = "NotFound"
    /\ acc.out = [err |-> FALSE, val |-> FALSE]

\* C26 (GetPodStatus).  GetPodStatus returns the sentinel "No pods found"
\* and no error for an empty list, the first listed pod's phase for a list
\* that is not empty, and an error exactly when the list call fails; the
\* sentinel does not contain "Running", and neither the waiter's tick, nor
\* the installer's tick, nor the verifier's tier check takes a tier
\* without pods for ready.
C26_GetPodStatus ==
    /\ ~Contains(NoPodsFound, PhaseRunning)
    /\ acc.fn = "GetPodStatus" =>
          /\ acc.out.err <=> ~acc.answer.ok
          /\ (acc.answer.ok /\ pods[acc.arg] = <<>>) =>
                /\ acc.out = [made |-> TRUE, err |-> FALSE, val |-> NoPodsFound]
                /\ acc.waiter # "return nil"
                /\ acc.installer # "return nil"
                /\ ~acc.verifier
          /\ (acc.answer.ok /\ pods[acc.arg] # <<>>) =>
                acc.out = [made |-> TRUE, err |-> FALSE,
                           val |-> pods[acc.arg][1]]

\* GetPodStatus has answered a selector that matches no pod with the
\* sentinel.
C26_Witness ==
    /\ acc.fn = "GetPodStatus"
    /\ acc.answer.ok
    /\ pods[acc.arg] = <<>>
    /\ acc.out.val = NoPodsFound
    /\ acc.waiter = "continue"

\* ----------------------------------------------------------------------
\* The resources of ApplyResources that the cluster keeps at cluster scope:
\* the documents of these kinds name no namespace.
ClusterScoped == {"namespaces", "storageclasses", "persistentvolumes"}

\* C30 (namespace defaulting).  For a document with an empty namespace
\* Apply addresses the object at cluster scope when its resource is
\* cluster-scoped and in "default" when it is namespaced; a document that
\* names a namespace is addressed in it.
C30_NamespaceDefault ==
    acc.fn = "Apply" =>
        /\ acc.ns # "" => acc.out = acc.ns
        /\ (acc.ns = "" /\ acc.resource \notin ClusterScoped) =>
              acc.out = "default"
        /\ (acc.ns = "" /\ acc.resource \in ClusterScoped) => acc.out = ""

\* ----------------------------------------------------------------------
\* The discovery lookup of the call of Apply that was entered last.
LastLookup == lookups[Len(lookups)]

\* C28 (kind resolution precedes mutation).  In a run of main a call of
\* Apply makes its create, get and update calls only after its discovery
\* lookup found the kind; a lookup that does not find it (the kind not
\* exposed, or the call failing) makes Apply return the discovery error
\* with no create, get or update made and the store as it was, is the last
\* lookup of the run, and the run ends at the stage's error.
C28_ResolveFirst ==
    /\ [](run = "main" =>
            /\ (ApplyInProgress \/ ops # <<>>) =>
                  /\ lookups # <<>>
                  /\ LastLookup.ok
                  /\ LastLookup.file = curFile
            /\ \A i \in 1..(Len(lookups) - 1) : lookups[i].ok
            /\ (lookups # <<>> /\ ~LastLookup.ok) =>
                  /\ ops = <<>>
                  /\ applyRet = ApplyErr("discovery", LastLookup.file)
                  /\ apc \in {"done", "idle"}
                  /\ stage \in {"install", "apply", "exit1"}
                  /\ apc = "idle" => stage = "exit1"
                  /\ stage = "exit1" =>
                        \E s \in {"install", "apply"} : Failed(s))
    /\ [][(run = "main" /\ lookups' # lookups) => objs' = objs]_vars

\* The applier's call of Apply for its second document has returned the
\* discovery error, and main has ended the run.
C28_Witness ==
    /\ run = "main"
    /\ Len(calls[1]) = 2
    /\ ~LastLookup.ok
    /\ LastLookup.file = calls[1][2]
    /\ ops = <<>>
    /\ stage = "exit1"
    /\ Failed("apply")

\* C29 (the kind mapping is cached).  In a run of main at most one
\* discovery lookup is made for a group, version and kind.
C29_OneLookupPerKind ==
    run = "main" =>
        \A i, j \in 1..Len(lookups) :
            lookups[i].gvk = lookups[j].gvk => i = j

\* C24 (downward cancellation).  Once the caller has cancelled the context
\* it passed to WaitForReady or Install while a poll loop was waiting, the
\* call stays blocked for at most one tick interval more, its loops make
\* at most one further check, no sub-wait after the one that was waiting
\* makes a check, and the call returns an error.
C24_Cancellation ==
    cancelled.is =>
        /\ Blocked => now <= cancelled.at + tickEvery
        /\ ChecksMade <= cancelled.checks + 1
        /\ \A t \in Tiers : t > cancelled.tier /\ run = "waiter" =>
                ticks[t] = 0 /\ existChecks[t] = 0
        /\ stage = "returned" => ret[IF run = "waiter" THEN "wait" ELSE "install"] # NilErr

\* WaitForReady was cancelled while its second sub-wait was waiting with a
\* tick ready; the sub-wait made one more check and WaitForReady returned.
C24_Witness ==
    /\ run = "waiter"
    /\ cancelled.is
    /\ cancelled.tier = 2
    /\ cancelled.at > 0
    /\ ChecksMade = cancelled.checks + 1
    /\ ChecksMade < MaxCount
    /\ stage = "returned"
    /\ ret["wait"] = WaitErr(2)

\* The variables the deployer's own steps change.
programVars == <<mainVars, touched, applierVars, applyVars, applyHist,
                 waitVars, waitHist, instVars, verVars>>

\* C27 (only apply mutates).  In a run of main the applied objects of the
\* store change only in the create and the update of a call of Apply: not
\* in its kind resolution, not in the installer's entry check, watch or pod
\* poll, and not in the waiter or the verifier.  An Install that finds the
\* operator returns without submitting anything, and while nothing has
\* been submitted the store is as it was at the start.  The resources and
\* pods the stages read change in steps of the cluster only.
C27_OnlyApplyMutates ==
    /\ [](submitted = <<>> => objs = store0)
    /\ [][ /\ objs' # objs =>
                 apc \in {"create", "update"} /\ stage \in {"install", "apply"}
           /\ stage \in {"wait", "verify"} => objs' = objs
           /\ (stage = "install" /\ ipc # "apply") => objs' = objs
           /\ (stage = "install" /\ ipc = "enter" /\ exists["operator"]) =>
                 stage' # "install" /\ submitted' = submitted
           /\ (exists' # exists \/ pods' # pods) =>
                 programVars' = programVars /\ objs' = objs ]_vars

\* main took the installer's skip path, applied a directory, waited and
\* verified: the store holds what the applier wrote, and nothing the
\* installer submitted.
C27_Witness ==
    /\ run = "main"
    /\ stage = "exit0"
    /\ exists["operator"]
    /\ lastEvent = "none"
    /\ ret["install"] = NilErr
    /\ ret["verify"] = NilErr
    /\ submitted # <<>>
    /\ \A k \in 1..Len(submitted) : submitted[k].by = "applier"
    /\ objs # store0

\* The stage a returned error ended.
EndedBy(r) == stage = "exit1" /\ \E s \in DOMAIN ret : ret[s] = r

\* C22 (local recovery only in poll loops).  In a run of main, a check
\* made on a tick of a sub-wait or of the installer's pod poll that
\* returned an error leaves its loop waiting, and the run ends there only
\* by the loop's timeout; the installer's entry check that returned an
\* error, a call of Apply that returned an error, a failed watch and a
\* required Verify check whose store call failed are each the last call
\* of the run: the stage returns the error and the run ends.
C22_LocalRecovery ==
    /\ []( /\ (lastCall.site = "tick" /\ lastCall.err) =>
                 \/ stage = "wait" /\ wpc = "select"
                 \/ EndedBy(WaitErr(wTier)) /\ retExpired
           /\ (lastCall.site = "pod poll" /\ lastCall.err) =>
                 \/ stage = "install" /\ ipc = "poll"
                 \/ EndedBy(InstallErr("pods timeout")) /\ retExpired
           /\ (lastCall.site = "entry check" /\ lastCall.err) =>
                 EndedBy(InstallErr("exists check")) /\ submitted = <<>>
           /\ ret["install"] \in WatchErrs =>
                 stage = "exit1" /\ lastCall.site = "entry check"
           /\ \A j \in 1..Len(vCalls) :
                 (vCalls[j].failed /\ vCalls[j].check < 6) =>
                    j = Len(vCalls) /\ EndedBy(VerifyErr(vCalls[j].check))
           /\ \A s \in DOMAIN ret :
                 ret[s] \notin {NoRet, NilErr} => stage = "exit1" )
    /\ [][ (apc = "done" /\ applyRet # NilErr
            /\ programVars' # programVars) =>
              /\ stage' = "exit1"
              /\ submitted' = submitted
              /\ ret'[stage] \in {InstallErr("apply"),
                                  StageErr("apply", curFile)} ]_vars

\* The second sub-wait's check has just returned an error, and
\* WaitForReady goes on waiting.
C22_Witness ==
    /\ run = "main"
    /\ stage = "wait"
    /\ wpc = "select"
    /\ wTier = 2
    /\ lastCall = [site |-> "tick", err |-> TRUE]
    /\ ret["apply"] = NilErr

\* "-postgres-"
PostgresInfix == <<45, 112, 111, 115, 116, 103, 114, 101, 115, 45>>

\* s is a non-empty string of decimal digits.
IsVersion(s) == Len(s) >= 1 /\ \A i \in 1..Len(s) : s[i] \in 48..57

\* The version suffix of a database name derived from W.
VersionOf(name, W) ==
    SubSeq(name, Len(W) + Len(PostgresInfix) + 1, Len(name))

\* C31 (derived naming).  For every workload name W the names derived are
\* W-web, W-task, W-service and W-ingress, and W-postgres-N with N a
\* version number that is the same in the waiter's database poll, the
\* verifier's database deployment check and its database service check.
C31_DerivedNames ==
    acc.fn = "names" =>
        LET W == acc.W
            n == acc.out
        IN
        /\ n["wait web"] = W \o SuffixWeb /\ n["verify web"] = W \o SuffixWeb
        /\ n["wait task"] = W \o SuffixTask
        /\ n["verify task"] = W \o SuffixTask
        /\ n["service"] = W \o SuffixService
        /\ n["ingress"] = W \o SuffixIngress
        /\ \A site \in {"wait postgres", "verify postgres", "service postgres"} :
              /\ IsPrefix(W \o PostgresInfix, n[site])
              /\ IsVersion(VersionOf(n[site], W))
              /\ VersionOf(n[site], W) = VersionOf(n["wait postgres"], W)

\* The names derived from the workload name "awx-demo".
C31_Witness ==
    /\ acc.fn = "names"
    /\ acc.W = <<97, 119, 120, 45, 100, 101, 109, 111>>
    /\ acc.out["service postgres"] = acc.W \o SuffixPostgres15
    /\ acc.out["wait postgres"] = acc.W \o SuffixPostgres15

\* What the store holds of the objects a required check asks about: the
\* primary resource; a tier's deployment and a first pod whose phase
\* contains "Running"; the two services.
StoreSatisfies(check) ==
    IF check = 1 THEN exists["awx"]
    ELSE IF check = 5 THEN exists["service"] /\ exists["postgres-service"]
    ELSE /\ exists[WaitResource(check)]
         /\ Len(pods[VerifySelector(check)]) >= 1
         /\ Contains(pods[VerifySelector(check)][1], PhaseRunning)

\* C32 (Verify sound and complete).  Verify returns nil exactly when all
\* five required checks were made, none of their calls failed and each
\* passed; and a required check passes exactly when none of its calls
\* failed and the store, at the step of the check, held what the check
\* asks for.
C32_VerifySoundComplete ==
    /\ []( (run = "verifier" /\ stage = "returned") =>
              ( ret["verify"] = NilErr <=>
                  /\ Len(RequiredCalls) = 5
                  /\ \A j \in 1..5 :
                        RequiredCalls[j].ok /\ ~RequiredCalls[j].failed ) )
    /\ [][ (Len(vCalls') = Len(vCalls) + 1 /\ Len(vCalls') <= 5) =>
             LET c == vCalls'[Len(vCalls')] IN
             /\ c.ok <=> (~c.failed /\ StoreSatisfies(c.check))
             /\ c.ok => StoreSatisfies(c.check) ]_vars

\* Verify has returned nil on a store that holds the primary resource, the
\* three tiers with a running first pod and both services, and no ingress.
C32_Witness ==
    /\ run = "verifier"
    /\ stage = "returned"
    /\ ret["verify"] = NilErr
    /\ \A check \in 1..5 : StoreSatisfies(check)
    /\ ~exists["ingress"]
    /\ Len(vCalls) = 6

\* The step is a tick of a tier's sub-wait that did not end WaitForReady
\* with an error.
TierTick ==
    /\ stage = "wait"
    /\ wpc = "select"
    /\ wTier \in 2..4
    /\ tickBuf
    /\ ~tickBuf'
    /\ ret'["wait"] \in {NoRet, NilErr}

\* The sub-wait that was active has returned nil in the step.
SubWaitSucceeds == wTier' = wTier + 1 \/ ret'["wait"] = NilErr

\* The first pod the tier's selector matches is in a phase that contains
\* "Running".
FirstPodRunning(t) ==
    /\ Len(pods[WaitSelector(t)]) >= 1
    /\ Contains(pods[WaitSelector(t)][1], PhaseRunning)

\* C33 (tier readiness predicate).  A tier's sub-wait returns nil only in
\* a tick whose existence check answered true and whose pod check, made
\* in that tick, answered a phase that contains "Running", the store
\* holding both at that step; a tick that does not learn that the
\* deployment exists makes no pod check; and while the deployment exists
\* with a first pod that is not Running, or with no pod, the sub-wait goes
\* on polling.
C33_TierReady ==
    [][ TierTick =>
          /\ lastTick'.tier = wTier
          /\ SubWaitSucceeds <=> lastTick'.outcome = "return nil"
          /\ SubWaitSucceeds =>
                /\ ~lastTick'.e.err /\ lastTick'.e.val
                /\ lastTick'.p.made /\ ~lastTick'.p.err
                /\ Contains(lastTick'.p.val, PhaseRunning)
                /\ exists[WaitResource(wTier)]
                /\ FirstPodRunning(wTier)
          /\ ~exists[WaitResource(wTier)] => ~lastTick'.p.made
          /\ lastTick'.p.made => ~lastTick'.e.err /\ lastTick'.e.val
          /\ (exists[WaitResource(wTier)] /\ ~FirstPodRunning(wTier)) =>
                wpc' = "select" /\ wTier' = wTier /\ ret' = ret ]_vars

\* The database deployment exists with a pending pod: the last tick asked
\* for the deployment and the pod, and the sub-wait goes on polling.
C33_Witness ==
    /\ run = "waiter"
    /\ stage = "wait"
    /\ wpc = "select"
    /\ wTier = 2
    /\ lastTick.tier = 2
    /\ lastTick.e.val
    /\ lastTick.p.made
    /\ ~lastTick.p.err
    /\ lastTick.p.val = PhasePending
    /\ lastTick.outcome = "continue"

\* C34 (apply under a concurrent delete).  When the re-read that follows
\* an already-exists answer finds the object gone, it is the last call
\* Apply makes: Apply returns the error of the re-read, with no update and
\* no second create, and the object is absent when Apply has returned.
C34_DeletedBeforeGet ==
    (Len(ops) >= 2 /\ ops[2].op = "get" /\ ops[2].answer = "NotFound") =>
        /\ ops[1] = [op |-> "create", answer |-> "AlreadyExists", rv |-> ops[1].rv]
        /\ Len(ops) = 2
        /\ apc \in {"done", "idle"}
        /\ applyRet = ApplyErr("get", curFile)
        /\ ~Target.present

\* Another actor deleted the object after the create was rejected, and
\* Apply has returned the error of its re-read.
C34_Witness ==
    /\ apc = "done"
    /\ Len(ops) = 2
    /\ ops[1].answer = "AlreadyExists"
    /\ ops[2].answer = "NotFound"
    /\ otherOps = 1
    /\ ~Target.present
    /\ applyRet = ApplyErr("get", curFile)

\* C35 (empty input is an error).  In a run of main, when the manifests
\* directory is missing or holds no *.yaml file, ManifestApplier.Apply
\* makes no call of Apply and returns an error, and the run ends there;
\* the waiter is reached only after the applier made a call and returned
\* nil.
C35_EmptyInput ==
    /\ (~dirExists \/ YamlNames = {}) =>
          /\ calls[1] = <<>>
          /\ \A k \in 1..Len(submitted) : submitted[k].by # "applier"
          /\ ret["apply"] \in
                {NoRet, StageErr(IF dirExists THEN "no files" ELSE "no directory",
                                 <<>>)}
          /\ ret["apply"] # NoRet => stage = "exit1"
          /\ stage \notin {"wait", "verify", "exit0"}
    /\ stage \in {"wait", "verify", "exit0"} =>
          ret["apply"] = NilErr /\ Len(calls[1]) >= 1

\* The directory holds a file that is not a manifest, and the run has
\* ended at the applier after the installer returned nil.
C35_Witness ==
    /\ run = "main"
    /\ dirExists
    /\ dir = {FileNotes}
    /\ ret["install"] = NilErr
    /\ ret["apply"] = StageErr("no files", <<>>)
    /\ stage = "exit1"
    /\ calls[1] = <<>>

\* The step enters a poll loop: a sub-wait, or the installer's pod poll.
LoopStarts ==
    \/ wpc' = "select" /\ (wpc # "select" \/ wTier' # wTier)
    \/ ipc' = "poll" /\ ipc # "poll"

\* The step is a tick of a sub-wait that did not end WaitForReady with an
\* error.
WaitTick ==
    /\ stage = "wait"
    /\ wpc = "select"
    /\ tickBuf
    /\ ~tickBuf'
    /\ ret'["wait"] \in {NoRet, NilErr}

\* C36 (first check after one full interval).  A poll loop starts with no
\* tick pending and its first tick set one interval later, and a tick is
\* not ready before its time; so the sub-wait of tier t makes no check
\* before t intervals after the entry of WaitForReady, WaitForReady does
\* not return nil before four intervals, and with a shorter timeout it
\* returns a timeout error.
C36_FirstCheck ==
    /\ []( (run = "waiter" /\ wpc = "returned"
             /\ timeout < 4 * PollInterval) =>
              /\ ret["wait"] = WaitErr(wTier)
              /\ retExpired )
    /\ [][ /\ LoopStarts =>
                /\ ~tickBuf'
                /\ tickEvery' = IF stage = "wait" THEN PollInterval
                                 ELSE OperatorPollInterval
                /\ tickAt' = now' + tickEvery'
           /\ (~tickBuf /\ tickBuf') => now' >= tickAt /\ now' > now
           /\ (stage = "install" /\ ipc = "poll" /\ iPodChecks' # iPodChecks) =>
                tickBuf /\ tickAt > now
           /\ WaitTick => now >= wTier * PollInterval
           /\ (run = "waiter" /\ ret'["wait"] = NilErr /\ ret["wait"] # NilErr) =>
                now >= 4 * PollInterval ]_vars

\* With a timeout of 70 s the first two sub-waits succeeded at their
\* first ticks and the third timed out before its first tick, its
\* deployment and pod being ready.
C36_Witness ==
    /\ run = "waiter"
    /\ timeout = 70
    /\ wpc = "returned"
    /\ ret["wait"] = WaitErr(3)
    /\ readySeen = {1, 2}
    /\ ticks[3] = 0
    /\ exists["web"]
    /\ pods["web wait"] = <<PhaseRunning>>

\* C37 (no success after the deadline).  A tick taken when the deadline
\* has fired does not end its loop with success: a sub-wait and the pod
\* poll return nil only in a tick taken before the deadline, and neither
\* WaitForReady nor Install returns nil with the deadline fired.
C37_NoLateSuccess ==
    /\ []( \A s \in {"wait", "install"} : ret[s] = NilErr => ~retExpired )
    /\ [][ /\ (WaitTick /\ SubWaitSucceeds) => now < deadline
           /\ (stage = "install" /\ ipc = "poll" /\ ret'["install"] = NilErr) =>
                now < deadline ]_vars

\* With a timeout of 30 s the first tick and the deadline came together;
\* the tick was taken, its check failed although the custom resource
\* exists, and the sub-wait is back in its select.
C37_Witness ==
    /\ run = "waiter"
    /\ timeout = 30
    /\ wpc = "select"
    /\ now = deadline
    /\ ~tickBuf
    /\ ticks[1] = 1
    /\ lastTick.tier = 1
    /\ lastTick.e.err
    /\ exists["awx"]

\* C38 (termination).  With store calls that return, a scheduler that
\* runs the deployer and time that passes, every run of main ends at exit
\* 0 or exit 1; one call of Apply makes at most three store calls, the
\* applier at most one call of Apply for each file, and Verify at most
\* six checks.
C38_Termination ==
    /\ <>(stage \in {"exit0", "exit1"})
    /\ []( /\ Len(ops) <= 3
           /\ Len(calls[1]) <= Cardinality(dir)
           /\ Len(vCalls) <= 6 )

\* The run has ended at the waiter, whose first sub-wait checked the
\* custom resource up to its deadline.
C38_Witness ==
    /\ run = "main"
    /\ stage = "exit1"
    /\ ret["wait"] = WaitErr(1)
    /\ retExpired
    /\ lastCall.site = "tick"
    /\ Len(calls[1]) >= 2

====
